---- MODULE Spec2Model ----
(***************************************************************************)
(* A model of the poemtok scripts: the luminance-threshold overlay recolor *)
(* (process_image_to_white_text, process_image and the class variants) and *)
(* the page-range / per-page video loop of PoemTokAdvanced.process.        *)
(***************************************************************************)
EXTENDS Integers, Sequences, FiniteSets, TLC

(***************************************************************************)
(* Bounds of the model.                                                    *)
(***************************************************************************)
MaxWidth == 2
MaxHeight == 2
MaxPages == 3

\* bg_opacity values, in percent (0.0, 0.7, 0.8 and 1.0 of the source).
Opacities == {0, 70, 80, 100}
GridOpacities == {80}
\* threshold tried on the small grids: 180, the default of
\* process_image_to_white_text (the other variants hard-code 200).
GridThresholds == {180}

VARIABLES
    func,            \* which recolor function this run calls
    image_size,      \* <<width, height>> of the grayscale image
    high_contrast,   \* the grayscale grid the double loop reads (getpixel)
    threshold,       \* threshold argument (200 where the code hard-codes it)
    bg_opacity,      \* bg_opacity argument, in percent
    processed,       \* the RGBA image the loop writes (putpixel)
    putcount,        \* number of putpixel calls per pixel in the last pass
    first_processed, \* the RGBA image of the first pass, kept for comparison
    passes,          \* number of recolor passes done so far
    total_pages,     \* len(pdf_reader.pages)
    start_page,      \* start_page argument of process()
    end_page,        \* end_page argument of process(): <<>> is None, <<n>> is n
    pc,              \* position of process()
    ext_start,       \* start_page inside extract_text_from_pdf, adjusted
    ext_end,         \* end_page inside extract_text_from_pdf, adjusted
    page_texts,      \* 0-based page indexes extract_text_from_pdf returned
    accessed,        \* every index used in pdf_reader.pages[i]
    loop_i,          \* enumerate index of the video loop
    invoked,         \* tool invocations so far: [page, name, ok]
    output_videos,   \* the list process() builds (page numbers in the names)
    screenshot_paths,\* batch_process_to_videos: the screenshots (page numbers)
    batch_i,         \* batch_process_to_videos: screenshots handled so far
    exit_codes,      \* exit status os.system returned for each screenshot
    video_paths,     \* the list batch_process_to_videos builds
    batch_pc,        \* position of batch_process_to_videos
    script,          \* "fixed" (poemtok_fixed) or "styled_text"
    chain_duration,  \* duration argument, in seconds
    chain_pc,        \* position in the fallback chain
    calls,           \* external commands run so far: [cmd, ok, out]
    result,          \* what the entry function returned: <<>> is None
    temp_image_video,\* whether output_path + ".temp_image.mp4" exists
    temp_program,    \* which program creates temporary directories
    temp_pc,         \* position of that program
    temp_dirs,       \* the mkdtemp directories that exist
    self_temp_dir,   \* the converter's self.temp_dir: <<>> before __init__
    temp_log,        \* output_path each process_image call returned
    removal_failed,  \* whether shutil.rmtree raised in __del__
    temp_files,      \* files the converter has written into self.temp_dir
    has_pytesseract, \* HAS_PYTESSERACT of poemtok.py
    resolution,      \* PoemTok.resolution: <<width, height>>
    styler_resolution, \* PoemTok.text_styler.resolution
    duration,        \* PoemTok.duration
    background_duration, \* background_video.duration
    ocr,             \* what pytesseract.image_to_string did
    text,            \* the text it returned, a sequence of characters
    render,          \* what create_minimalist_overlay did
    overlay,         \* what create_text_overlay returned: <<>> before
    segment,         \* the background segment create_video cut: <<>> before
    video_pc,        \* position of PoemTok.create_video
    run_script,      \* which converter's page loop runs
    run_texts,       \* the pages the loop goes over, as lists of lines
    run_i,           \* pages the loop has finished
    run_pc,          \* position inside the loop body
    scratch,         \* content of the scratch file: <<>> when absent
    in_flight,       \* pages whose tool invocation has not returned
    tool_log,        \* tool events: [ev, page, read]
    run_outputs,     \* the list the loop builds
    args_bg_opacity, \* poemtok_final: args.bg_opacity, in percent
    args_contrast,   \* poemtok_final: args.contrast
    final_pc,        \* position of poemtok_final.create_video
    final_calls,     \* external commands it has run: [cmd, ok, out]
    final_result,    \* what create_video returned: <<>> is None
    fmt_func,        \* which text formatter this run calls
    words,           \* text.split(): the words, each [id, len]
    max_line_length, \* the line limit the formatter works with
    fmt_duration,    \* the duration argument, in seconds
    lines,           \* the lines the formatter emitted, as lists of words
    cue,             \* the timestamps written: <<>> before
    fmt_pc,          \* position of the formatter
    video_size,      \* <<video.w, video.h>> of the source video
    crop_resolution, \* PoemTok.resolution in prepare_background_video
    crop,            \* the window passed to video.crop: <<>> before
    crop_pc,         \* position of prepare_background_video
    shot_total,      \* save_pdf_pages_as_images: total_pages
    shot_start,      \* start_page
    shot_end,        \* end_page: <<>> is None
    shot_pc,         \* position of save_pdf_pages_as_images
    shot_page,       \* the page the running loop is at
    image_paths,     \* the list it builds (page numbers in the names)
    shot_log,        \* pages attempted: [by, page, ok]
    shot_raised      \* whether an exception left the function

imgvars == <<func, image_size, high_contrast, threshold, bg_opacity,
             processed, putcount, first_processed, passes>>
procvars == <<total_pages, start_page, end_page, pc, ext_start, ext_end,
              page_texts, accessed, loop_i, invoked, output_videos>>
batchvars == <<screenshot_paths, batch_i, exit_codes, video_paths, batch_pc>>
chainvars == <<script, chain_duration, chain_pc, calls, result,
               temp_image_video>>
tempvars == <<temp_program, temp_pc, temp_dirs, self_temp_dir, temp_log,
              removal_failed, temp_files>>
videovars == <<has_pytesseract, resolution, styler_resolution, duration,
               background_duration, ocr, text, render, overlay, segment,
               video_pc>>
runvars == <<run_script, run_texts, run_i, run_pc, scratch, in_flight,
             tool_log, run_outputs>>
finalvars == <<args_bg_opacity, args_contrast, final_pc, final_calls,
               final_result>>
fmtvars == <<words, fmt_func, max_line_length, fmt_duration, lines, cue,
             fmt_pc>>
cropvars == <<video_size, crop_resolution, crop, crop_pc>>
shotvars == <<shot_total, shot_start, shot_end, shot_pc, shot_page,
              image_paths, shot_log, shot_raised>>
\* The single-image script, the formatters, the crop and the screenshots.
toolvars == <<finalvars, fmtvars, cropvars, shotvars>>
\* Everything outside the recolor and the page loop of process().
scriptvars == <<batchvars, chainvars, tempvars, videovars, runvars, toolvars>>
vars == <<func, image_size, high_contrast, threshold, bg_opacity,
          processed, putcount, first_processed, passes,
          total_pages, start_page, end_page, pc, ext_start, ext_end,
          page_texts, accessed, loop_i, invoked, output_videos,
          screenshot_paths, batch_i, exit_codes, video_paths, batch_pc,
          script, chain_duration, chain_pc, calls, result, temp_image_video,
          temp_program, temp_pc, temp_dirs, self_temp_dir, temp_log,
          removal_failed, temp_files,
          has_pytesseract, resolution, styler_resolution, duration,
          background_duration, ocr, text, render, overlay, segment, video_pc,
          run_script, run_texts, run_i, run_pc, scratch, in_flight,
          tool_log, run_outputs,
          args_bg_opacity, args_contrast, final_pc, final_calls, final_result,
          fmt_func, words, max_line_length, fmt_duration, lines, cue, fmt_pc,
          video_size, crop_resolution, crop, crop_pc,
          shot_total, shot_start, shot_end, shot_pc, shot_page, image_paths,
          shot_log, shot_raised>>

\* batch_process_to_videos is not running.
BatchIdle ==
    /\ screenshot_paths = <<>>
    /\ batch_i = 0
    /\ exit_codes = <<>>
    /\ video_paths = <<>>
    /\ batch_pc = "idle"

\* No fallback chain is running.
ChainIdle ==
    /\ script = "fixed"
    /\ chain_duration = 5
    /\ chain_pc = "idle"
    /\ calls = <<>>
    /\ result = <<>>
    /\ temp_image_video = FALSE

\* No program that creates temporary directories is running.
TempIdle ==
    /\ temp_program = "advanced"
    /\ temp_pc = "idle"
    /\ temp_dirs = {}
    /\ self_temp_dir = <<>>
    /\ temp_log = <<>>
    /\ removal_failed = FALSE
    /\ temp_files = 0

\* PoemTok.create_video is not running.
VideoIdle ==
    /\ has_pytesseract = FALSE
    /\ resolution = <<1080, 1920>>
    /\ styler_resolution = <<1080, 1920>>
    /\ duration = 15
    /\ background_duration = 15
    /\ ocr = "not_called"
    /\ text = <<>>
    /\ render = "not_called"
    /\ overlay = <<>>
    /\ segment = <<>>
    /\ video_pc = "idle"

\* No page loop with a scratch file is running.
RunIdle ==
    /\ run_script = "advanced"
    /\ run_texts = <<>>
    /\ run_i = 0
    /\ run_pc = "idle"
    /\ scratch = <<>>
    /\ in_flight = {}
    /\ tool_log = <<>>
    /\ run_outputs = <<>>

\* poemtok_final.create_video is not running.
FinalIdle ==
    /\ args_bg_opacity = 80
    /\ args_contrast = 2
    /\ final_pc = "idle"
    /\ final_calls = <<>>
    /\ final_result = <<>>

\* No text formatter is running.
FmtIdle ==
    /\ fmt_func = "_format_text"
    /\ words = <<>>
    /\ max_line_length = 30
    /\ fmt_duration = 10
    /\ lines = <<>>
    /\ cue = <<>>
    /\ fmt_pc = "idle"

\* prepare_background_video is not running.
CropIdle ==
    /\ video_size = <<1080, 1920>>
    /\ crop_resolution = <<1080, 1920>>
    /\ crop = <<>>
    /\ crop_pc = "idle"

\* save_pdf_pages_as_images is not running.
ShotIdle ==
    /\ shot_total = 0
    /\ shot_start = 1
    /\ shot_end = <<>>
    /\ shot_pc = "idle"
    /\ shot_page = 0
    /\ image_paths = <<>>
    /\ shot_log = <<>>
    /\ shot_raised = FALSE

ToolsIdle == FinalIdle /\ FmtIdle /\ CropIdle /\ ShotIdle

ScriptsIdle ==
    BatchIdle /\ ChainIdle /\ TempIdle /\ VideoIdle /\ RunIdle /\ ToolsIdle

(***************************************************************************)
(* The threshold recolor.                                                  *)
(***************************************************************************)
Funcs == {"process_image_to_white_text", "process_image",
          "PoemTokImage.process_image", "PoemTokScreenshot.process_image"}

Pixels(size) == (0..(size[1] - 1)) \X (0..(size[2] - 1))

White == <<255, 255, 255, 255>>
Fill == <<0, 0, 0, 0>>

\* Image.new("RGBA", size, (0, 0, 0, 0))
NewImage(size) == [size |-> size, px |-> [p \in Pixels(size) |-> Fill]]

\* bg_alpha = int(255 * bg_opacity), bg_opacity in percent
bg_alpha(opacity) == (255 * opacity) \div 100

\* The comparison made inclusive (pixel >= threshold).
ThresholdPixelInclusive(pixel, T, alpha) ==
    IF pixel >= T THEN White ELSE <<0, 0, 0, alpha>>

\* if pixel > threshold: white, opaque; else: black at bg_alpha
ThresholdPixel(pixel, T, alpha) ==
    IF pixel > T THEN White ELSE <<0, 0, 0, alpha>>

\* The mid-tone band made to start at 100 (pixel >= 100).
SoftBandPixelInclusive(pixel, alpha) ==
    IF pixel > 200 THEN White
    ELSE IF pixel >= 100 THEN <<255, 255, 255, (255 * pixel) \div 255>>
    ELSE <<0, 0, 0, alpha>>

\* PoemTokScreenshot: > 200 white; > 100 white with alpha int(255*(pixel/255.0))
SoftBandPixel(pixel, alpha) ==
    IF pixel > 200 THEN White
    ELSE IF pixel > 100 THEN <<255, 255, 255, (255 * pixel) \div 255>>
    ELSE <<0, 0, 0, alpha>>

\* The classification each function applies to one pixel value.
Classify(f, pixel, T, alpha) ==
    CASE f = "process_image_to_white_text" -> ThresholdPixel(pixel, T, alpha)
      [] f = "process_image" -> ThresholdPixel(pixel, 200, alpha)
      [] f = "PoemTokImage.process_image" -> ThresholdPixel(pixel, 200, alpha)
      [] f = "PoemTokScreenshot.process_image" -> SoftBandPixel(pixel, alpha)

\* processed.putpixel((x, y), value), counting the call
PutPixel(acc, x, y, value) ==
    [img |-> [acc.img EXCEPT !.px[<<x, y>>] = value],
     puts |-> [acc.puts EXCEPT ![<<x, y>>] = @ + 1]]

\* The inner loop stopping one column early (range(width - 1)).
RECURSIVE ColumnLoopShort(_, _, _, _, _, _, _)
ColumnLoopShort(f, gray, size, T, alpha, xy, acc) ==
    IF xy[1] >= size[1] - 1 THEN acc
    ELSE ColumnLoopShort(f, gray, size, T, alpha, <<xy[1] + 1, xy[2]>>,
                         PutPixel(acc, xy[1], xy[2],
                                  Classify(f, gray[xy], T, alpha)))

\* for x in range(width): pixel = getpixel((x, y)); putpixel((x, y), ...)
RECURSIVE ColumnLoop(_, _, _, _, _, _, _)
ColumnLoop(f, gray, size, T, alpha, xy, acc) ==
    IF xy[1] >= size[1] THEN acc
    ELSE ColumnLoop(f, gray, size, T, alpha, <<xy[1] + 1, xy[2]>>,
                    PutPixel(acc, xy[1], xy[2],
                             Classify(f, gray[xy], T, alpha)))

\* for y in range(height): for x in range(width): ...
RECURSIVE RowLoop(_, _, _, _, _, _, _)
RowLoop(f, gray, size, T, alpha, y, acc) ==
    IF y >= size[2] THEN acc
    ELSE RowLoop(f, gray, size, T, alpha, y + 1,
                 ColumnLoop(f, gray, size, T, alpha, <<0, y>>, acc))

\* The double loop over a fresh RGBA image of the size of the grayscale one.
Recolor(f, gray, size, T, opacity) ==
    RowLoop(f, gray, size, T, bg_alpha(opacity), 0,
            [img |-> NewImage(size), puts |-> [p \in Pixels(size) |-> 0]])

\* image.convert("L") of an RGBA pixel: the ITU-R 601-2 luma, alpha dropped
ConvertL(rgba) ==
    (rgba[1] * 19595 + rgba[2] * 38470 + rgba[3] * 7471 + 32768) \div 65536

\* The sum of the pixel values, row by row (ImageStat.Stat(image).sum).
RECURSIVE SumRow(_, _, _)
SumRow(g, size, xy) ==
    IF xy[1] >= size[1] THEN 0
    ELSE g[xy] + SumRow(g, size, <<xy[1] + 1, xy[2]>>)

RECURSIVE SumImage(_, _, _)
SumImage(g, size, y) ==
    IF y >= size[2] THEN 0
    ELSE SumRow(g, size, <<0, y>>) + SumImage(g, size, y + 1)

Clip8(v) == IF v <= 0 THEN 0 ELSE IF v >= 255 THEN 255 ELSE v

\* contrast=2.0, the default of process_image_to_white_text
contrast == 2

\* ImageEnhance.Contrast(gray).enhance(factor): blend of the image with its
\* rounded mean, extrapolated by factor and clipped to 0..255.
Enhance(gray, size, factor) ==
    LET n == Cardinality(Pixels(size))
        mean == (2 * SumImage(gray, size, 0) + n) \div (2 * n)
    IN [p \in Pixels(size) |-> Clip8(mean + factor * (gray[p] - mean))]

\* The read-back with the ImageOps.invert step of poemtok_final.process_image.
ReadBackInverted(img) ==
    Enhance([p \in Pixels(img.size) |-> 255 - ConvertL(img.px[p])], img.size,
            contrast)

\* Reading an RGBA image back the way process_image_to_white_text reads its
\* input: Image.open, convert("L"), enhance(contrast).
ReadBack(img) ==
    Enhance([p \in Pixels(img.size) |-> ConvertL(img.px[p])], img.size, contrast)

\* One call of the recolor function func on the image in high_contrast.
ProcessImage(f) ==
    /\ func = f
    /\ passes = 0
    /\ LET r == Recolor(f, high_contrast, image_size, threshold, bg_opacity)
       IN /\ processed' = r.img
          /\ putcount' = r.puts
          /\ first_processed' = r.img
    /\ passes' = 1
    /\ UNCHANGED <<func, image_size, high_contrast, threshold, bg_opacity>>
    /\ UNCHANGED procvars
    /\ UNCHANGED scriptvars

process_image_to_white_text == ProcessImage("process_image_to_white_text")
process_image == ProcessImage("process_image")
PoemTokImage_process_image == ProcessImage("PoemTokImage.process_image")
PoemTokScreenshot_process_image == ProcessImage("PoemTokScreenshot.process_image")

\* process_image_to_white_text called again on its own output, same threshold.
RecolorAgain ==
    /\ func = "process_image_to_white_text"
    /\ passes = 1
    /\ LET gray2 == ReadBack(processed)
           r == Recolor(func, gray2, processed.size, threshold, bg_opacity)
       IN /\ high_contrast' = gray2
          /\ image_size' = processed.size
          /\ processed' = r.img
          /\ putcount' = r.puts
    /\ passes' = 2
    /\ UNCHANGED <<func, threshold, bg_opacity, first_processed>>
    /\ UNCHANGED procvars
    /\ UNCHANGED scriptvars

ImageNext ==
    \/ process_image_to_white_text
    \/ process_image
    \/ PoemTokImage_process_image
    \/ PoemTokScreenshot_process_image
    \/ RecolorAgain

\* The page loop is idle in the image specifications.
ProcIdle ==
    /\ total_pages = 0
    /\ start_page = 1
    /\ end_page = <<>>
    /\ pc = "idle"
    /\ ext_start = 1
    /\ ext_end = 0
    /\ page_texts = <<>>
    /\ accessed = {}
    /\ loop_i = 0
    /\ invoked = <<>>
    /\ output_videos = <<>>

\* The intensities put on the small grids: 0 and the two sides of every
\* comparison the function makes.
GridSamples(f, T) ==
    IF f = "PoemTokScreenshot.process_image" THEN {100, 101, 201}
    ELSE IF f = "process_image_to_white_text" THEN {0, T, T + 1}
    ELSE {0, 200, 201}

ImgStart ==
    /\ processed = NewImage(image_size)
    /\ putcount = [p \in Pixels(image_size) |-> 0]
    /\ first_processed = NewImage(image_size)
    /\ passes = 0

\* Small grids of every shape up to MaxWidth x MaxHeight.
InitGrid ==
    /\ func \in Funcs
    /\ image_size \in (1..MaxWidth) \X (1..MaxHeight)
    /\ threshold \in (IF func = "process_image_to_white_text"
                      THEN GridThresholds ELSE {200})
    /\ bg_opacity \in GridOpacities
    /\ high_contrast \in [Pixels(image_size) -> GridSamples(func, threshold)]
    /\ ImgStart
    /\ ProcIdle
    /\ ScriptsIdle

\* A 4 x 4 gradient block holding 16 consecutive intensities; the 16 blocks
\* together hold every 8-bit intensity once, each under every threshold
\* 0..255.
InitGradient ==
    /\ func \in Funcs
    /\ image_size = <<4, 4>>
    /\ threshold \in (IF func = "process_image_to_white_text"
                      THEN 0..255 ELSE {200})
    /\ bg_opacity \in Opacities
    /\ \E block \in 0..15 :
           high_contrast = [p \in Pixels(image_size) |->
                                16 * block + 4 * p[2] + p[1]]
    /\ ImgStart
    /\ ProcIdle
    /\ ScriptsIdle

SpecImage == (InitGrid \/ InitGradient) /\ [][ImageNext]_vars

(***************************************************************************)
(* PoemTokAdvanced.process: page range, one video per page.                *)
(***************************************************************************)
None == <<>>

Max(a, b) == IF a > b THEN a ELSE b

\* The lower clamp taken at 0 instead of 1.
clamp_start_zero(s) == Max(0, s)

\* start_page = max(1, start_page)
clamp_start(s) == Max(1, s)

\* Only None replaced; an end_page beyond the document kept.
clamp_end_none_only(e, total) ==
    IF e = None THEN total ELSE e[1]

\* if end_page is None or end_page > total_pages: end_page = total_pages
clamp_end(e, total) ==
    IF e = None \/ e[1] > total THEN total ELSE e[1]

\* range(start_page, end_page): the 1-indexed start used as a 0-based index.
PageRangeOffByOne(s, e) ==
    [k \in 1..Max(0, e - s) |-> s + (k - 1)]

\* range(start_page - 1, end_page), as a sequence of 0-based indexes
PageRange(s, e) ==
    [k \in 1..Max(0, e - (s - 1)) |-> (s - 1) + (k - 1)]

\* pdf_reader.pages[i] raises IndexError outside -total..total-1
ValidIndex(i, total) == (0 - total) <= i /\ i < total

\* The page a valid index denotes (a negative index counts from the end).
PageOf(i, total) == IF i < 0 THEN i + total ELSE i

\* The indexes the extraction loop uses before it stops: all of them, or
\* those up to and including the first one that raises.
RECURSIVE Used(_, _)
Used(idx, total) ==
    IF idx = <<>> THEN {}
    ELSE IF ~ValidIndex(Head(idx), total) THEN {Head(idx)}
    ELSE {Head(idx)} \cup Used(Tail(idx), total)

\* extract_text_from_pdf(pdf_path, start_page, end_page): adjust the range,
\* then read pages[i] for every i of range(start_page - 1, end_page).
extract_text_from_pdf ==
    /\ pc = "start"
    /\ LET s == clamp_start(start_page)
           e == clamp_end(end_page, total_pages)
           idx == PageRange(s, e)
           raises == \E k \in 1..Len(idx) : ~ValidIndex(idx[k], total_pages)
       IN /\ ext_start' = s
          /\ ext_end' = e
          /\ accessed' = Used(idx, total_pages)
          /\ page_texts' = IF raises THEN <<>>
                           ELSE [k \in 1..Len(idx) |-> PageOf(idx[k], total_pages)]
          /\ pc' = IF raises THEN "crashed" ELSE "loop"
    /\ UNCHANGED <<total_pages, start_page, end_page, loop_i, invoked,
                   output_videos>>
    /\ UNCHANGED imgvars
    /\ UNCHANGED scriptvars

\* The page number process() puts in the file name: i + start_page, with
\* the start_page argument of process().
OutputName(i, s) == i + s

\* One iteration of the video loop; ffmpeg exits zero, so
\* create_video_with_advanced_text returns output_path and it is appended.
CreateVideoSucceeds ==
    /\ pc = "loop"
    /\ loop_i < Len(page_texts)
    /\ LET name == OutputName(loop_i, start_page)
       IN /\ invoked' = Append(invoked, [page |-> page_texts[loop_i + 1],
                                         name |-> name, ok |-> TRUE])
          /\ output_videos' = Append(output_videos, name)
    /\ loop_i' = loop_i + 1
    /\ UNCHANGED <<total_pages, start_page, end_page, pc, ext_start, ext_end,
                   page_texts, accessed>>
    /\ UNCHANGED imgvars
    /\ UNCHANGED scriptvars

\* The failure not caught: the exception leaves process().
CreateVideoFailsAborts ==
    /\ pc = "loop"
    /\ loop_i < Len(page_texts)
    /\ LET name == OutputName(loop_i, start_page)
       IN invoked' = Append(invoked, [page |-> page_texts[loop_i + 1],
                                      name |-> name, ok |-> FALSE])
    /\ pc' = "crashed"
    /\ UNCHANGED <<total_pages, start_page, end_page, ext_start, ext_end,
                   page_texts, accessed, loop_i, output_videos>>
    /\ UNCHANGED imgvars
    /\ UNCHANGED scriptvars

\* The path appended whatever the result (as PoemTok.process does).
CreateVideoFailsAppends ==
    /\ pc = "loop"
    /\ loop_i < Len(page_texts)
    /\ LET name == OutputName(loop_i, start_page)
       IN /\ invoked' = Append(invoked, [page |-> page_texts[loop_i + 1],
                                         name |-> name, ok |-> FALSE])
          /\ output_videos' = Append(output_videos, name)
    /\ loop_i' = loop_i + 1
    /\ UNCHANGED <<total_pages, start_page, end_page, pc, ext_start, ext_end,
                   page_texts, accessed>>
    /\ UNCHANGED imgvars
    /\ UNCHANGED scriptvars

\* One iteration of the video loop; ffmpeg exits non-zero, the
\* CalledProcessError is caught, the result is None and nothing is appended.
CreateVideoFails ==
    /\ pc = "loop"
    /\ loop_i < Len(page_texts)
    /\ LET name == OutputName(loop_i, start_page)
       IN invoked' = Append(invoked, [page |-> page_texts[loop_i + 1],
                                      name |-> name, ok |-> FALSE])
    /\ loop_i' = loop_i + 1
    /\ UNCHANGED <<total_pages, start_page, end_page, pc, ext_start, ext_end,
                   page_texts, accessed, output_videos>>
    /\ UNCHANGED imgvars
    /\ UNCHANGED scriptvars

\* The loop is exhausted: return output_videos.
ProcessReturn ==
    /\ pc = "loop"
    /\ loop_i = Len(page_texts)
    /\ pc' = "done"
    /\ UNCHANGED <<total_pages, start_page, end_page, ext_start, ext_end,
                   page_texts, accessed, loop_i, invoked, output_videos>>
    /\ UNCHANGED imgvars
    /\ UNCHANGED scriptvars

ProcessNext ==
    \/ extract_text_from_pdf
    \/ CreateVideoSucceeds
    \/ CreateVideoFails
    \/ ProcessReturn

\* The recolor is idle in the page-loop specification.
ImgIdle ==
    /\ func = "process_image"
    /\ image_size = <<1, 1>>
    /\ threshold = 200
    /\ bg_opacity = 80
    /\ high_contrast = [p \in Pixels(image_size) |-> 0]
    /\ ImgStart

\* Every combination of a document length, a start_page (below 1, inside,
\* beyond the end) and an end_page (None, below 1, inside, beyond the end).
InitProcess ==
    /\ total_pages \in 0..MaxPages
    /\ start_page \in (0 - 1)..(MaxPages + 1)
    /\ end_page \in {None} \cup {<<n>> : n \in (0 - 1)..(MaxPages + 1)}
    /\ pc = "start"
    /\ ext_start = start_page
    /\ ext_end = 0
    /\ page_texts = <<>>
    /\ accessed = {}
    /\ loop_i = 0
    /\ invoked = <<>>
    /\ output_videos = <<>>
    /\ ImgIdle
    /\ ScriptsIdle

SpecProcess == InitProcess /\ [][ProcessNext]_vars

(***************************************************************************)
(* pdf_to_screenshots.batch_process_to_videos: one poemtok_final.py run    *)
(* per screenshot, through os.system.                                      *)
(***************************************************************************)
\* The exit statuses of "python poemtok_final.py ...": 0, 1 (an uncaught
\* exception) and 2 (argparse rejecting the command line).
ExitStatuses == {0, 1, 2}

\* output_path = os.path.join(output_dir, f"{base_name}.mp4"): the path is
\* named after the screenshot, here its page number.
BatchOutputPath(screenshot) == screenshot

\* One iteration: os.system(...) returns status, which is dropped, and
\* output_path is appended.
BatchIteration(status) ==
    /\ batch_pc = "loop"
    /\ batch_i < Len(screenshot_paths)
    /\ exit_codes' = Append(exit_codes, status)
    /\ video_paths' = Append(video_paths,
                             BatchOutputPath(screenshot_paths[batch_i + 1]))
    /\ batch_i' = batch_i + 1
    /\ UNCHANGED <<screenshot_paths, batch_pc>>
    /\ UNCHANGED <<imgvars, procvars, chainvars, tempvars, videovars, runvars,
                 toolvars>>

\* poemtok_final.py exits 0.
BatchVideoCreated == BatchIteration(0)

\* poemtok_final.py exits non-zero.
BatchVideoFailed == \E status \in ExitStatuses \ {0} : BatchIteration(status)

\* return video_paths
BatchReturn ==
    /\ batch_pc = "loop"
    /\ batch_i = Len(screenshot_paths)
    /\ batch_pc' = "done"
    /\ UNCHANGED <<screenshot_paths, batch_i, exit_codes, video_paths>>
    /\ UNCHANGED <<imgvars, procvars, chainvars, tempvars, videovars, runvars,
                 toolvars>>

BatchNext ==
    \/ BatchVideoCreated
    \/ BatchVideoFailed
    \/ BatchReturn

\* The screenshots of pages first..last that pdf_to_screenshots returned.
InitBatch ==
    /\ \E first \in 1..2, n \in 0..MaxPages :
           screenshot_paths = [k \in 1..n |-> first + k - 1]
    /\ batch_i = 0
    /\ exit_codes = <<>>
    /\ video_paths = <<>>
    /\ batch_pc = "loop"
    /\ ImgIdle
    /\ ProcIdle
    /\ ChainIdle
    /\ TempIdle
    /\ VideoIdle
    /\ RunIdle
    /\ ToolsIdle

SpecBatch == InitBatch /\ [][BatchNext]_vars

(***************************************************************************)
(* The fallback chains: poemtok_fixed.create_video_with_overlay (primary,  *)
(* alternative, direct) and poemtok_styled_text.create_video_with_styled_  *)
(* text (primary, direct).                                                 *)
(***************************************************************************)
Scripts == {"fixed", "styled_text"}

\* duration: the default 5 and a longer one.
Durations == {5, 15}

\* What ffprobe may print for format=duration.
ProbeStdout == {"", "N/A", "0.000000", "0.090000", "0.100000", "5.000000"}

\* float(duration_str), in hundredths of a second; <<>> is ValueError.
ParseFloat(str) ==
    CASE str = "0.000000" -> <<0>>
      [] str = "0.090000" -> <<9>>
      [] str = "0.100000" -> <<10>>
      [] str = "5.000000" -> <<500>>
      [] OTHER -> <<>>

\* poemtok_fixed without the duration test (as poemtok_styled_text has it).
FixedVerifyNoDuration(str) ==
    IF ParseFloat(str) = <<>> THEN "fallback" ELSE "return"

\* poemtok_fixed: ValueError, or actual_duration < 0.1, goes to the
\* alternative; otherwise output_path is returned.
FixedVerify(str) ==
    LET d == ParseFloat(str)
    IN IF d = <<>> THEN "fallback"
       ELSE IF d[1] < 10 THEN "fallback"
       ELSE "return"

\* poemtok_styled_text: only ValueError goes to create_video_direct.
StyledVerify(str) ==
    IF ParseFloat(str) = <<>> THEN "fallback" ELSE "return"

Verify(sc, str) == IF sc = "fixed" THEN FixedVerify(str) ELSE StyledVerify(str)

\* Where the primary strategy hands over to.
Fallback(sc) == IF sc = "fixed" THEN "alt_image" ELSE "direct"

Call(cmd, ok, out) == [cmd |-> cmd, ok |-> ok, out |-> out]

\* The primary ffmpeg command exits zero; the probe comes next.
PrimaryExitsZero ==
    /\ chain_pc = "primary"
    /\ calls' = Append(calls, Call("primary", TRUE, ""))
    /\ chain_pc' = "probe"
    /\ UNCHANGED <<script, chain_duration, result, temp_image_video>>
    /\ UNCHANGED <<imgvars, procvars, batchvars, tempvars, videovars, runvars,
                 toolvars>>

\* The primary ffmpeg command exits non-zero: CalledProcessError.
PrimaryFails ==
    /\ chain_pc = "primary"
    /\ calls' = Append(calls, Call("primary", FALSE, ""))
    /\ chain_pc' = Fallback(script)
    /\ UNCHANGED <<script, chain_duration, result, temp_image_video>>
    /\ UNCHANGED <<imgvars, procvars, batchvars, tempvars, videovars, runvars,
                 toolvars>>

\* ffprobe exits non-zero: CalledProcessError, same handler.
ProbeFails ==
    /\ chain_pc = "probe"
    /\ calls' = Append(calls, Call("probe", FALSE, ""))
    /\ chain_pc' = Fallback(script)
    /\ UNCHANGED <<script, chain_duration, result, temp_image_video>>
    /\ UNCHANGED <<imgvars, procvars, batchvars, tempvars, videovars, runvars,
                 toolvars>>

\* ffprobe exits zero and the check of its output lets the primary's
\* output_path be returned.
ProbeAccepted ==
    /\ chain_pc = "probe"
    /\ \E out \in ProbeStdout :
           /\ Verify(script, out) = "return"
           /\ calls' = Append(calls, Call("probe", TRUE, out))
    /\ result' = <<"primary">>
    /\ chain_pc' = "done"
    /\ UNCHANGED <<script, chain_duration, temp_image_video>>
    /\ UNCHANGED <<imgvars, procvars, batchvars, tempvars, videovars, runvars,
                 toolvars>>

\* ffprobe exits zero and the check of its output calls the next strategy.
ProbeRejected ==
    /\ chain_pc = "probe"
    /\ \E out \in ProbeStdout :
           /\ Verify(script, out) = "fallback"
           /\ calls' = Append(calls, Call("probe", TRUE, out))
    /\ chain_pc' = Fallback(script)
    /\ UNCHANGED <<script, chain_duration, result, temp_image_video>>
    /\ UNCHANGED <<imgvars, procvars, batchvars, tempvars, videovars, runvars,
                 toolvars>>

\* create_video_alternative, image_command exits zero: the temporary video
\* exists.
AltImageCreated ==
    /\ chain_pc = "alt_image"
    /\ calls' = Append(calls, Call("alt_image", TRUE, ""))
    /\ temp_image_video' = TRUE
    /\ chain_pc' = "alt_overlay"
    /\ UNCHANGED <<script, chain_duration, result>>
    /\ UNCHANGED <<imgvars, procvars, batchvars, tempvars, videovars, runvars,
                 toolvars>>

\* image_command exits non-zero (ffmpeg may or may not leave a partial
\* file): create_video_direct is called.
AltImageFails ==
    /\ chain_pc = "alt_image"
    /\ calls' = Append(calls, Call("alt_image", FALSE, ""))
    /\ temp_image_video' \in BOOLEAN
    /\ chain_pc' = "direct"
    /\ UNCHANGED <<script, chain_duration, result>>
    /\ UNCHANGED <<imgvars, procvars, batchvars, tempvars, videovars, runvars,
                 toolvars>>

\* overlay_command exits zero although it was meant to fail over: the
\* success is not returned and create_video_direct runs as well.
AltOverlayCreatedFallsThrough ==
    /\ chain_pc = "alt_overlay"
    /\ calls' = Append(calls, Call("alt_overlay", TRUE, ""))
    /\ temp_image_video' = FALSE
    /\ chain_pc' = "direct"
    /\ UNCHANGED <<script, chain_duration, result>>
    /\ UNCHANGED <<imgvars, procvars, batchvars, tempvars, videovars, runvars,
                 toolvars>>

\* overlay_command exits zero: the temporary video is removed and
\* output_path returned.
AltOverlayCreated ==
    /\ chain_pc = "alt_overlay"
    /\ calls' = Append(calls, Call("alt_overlay", TRUE, ""))
    /\ temp_image_video' = FALSE
    /\ result' = <<"alternative">>
    /\ chain_pc' = "done"
    /\ UNCHANGED <<script, chain_duration>>
    /\ UNCHANGED <<imgvars, procvars, batchvars, tempvars, videovars, runvars,
                 toolvars>>

\* overlay_command exits non-zero and the handler returns None at once.
AltOverlayFailsReturnsNone ==
    /\ chain_pc = "alt_overlay"
    /\ calls' = Append(calls, Call("alt_overlay", FALSE, ""))
    /\ result' = <<>>
    /\ chain_pc' = "done"
    /\ UNCHANGED <<script, chain_duration, temp_image_video>>
    /\ UNCHANGED <<imgvars, procvars, batchvars, tempvars, videovars, runvars,
                 toolvars>>

\* overlay_command exits non-zero: create_video_direct is called; the
\* clean-up of the temporary video is skipped.
AltOverlayFails ==
    /\ chain_pc = "alt_overlay"
    /\ calls' = Append(calls, Call("alt_overlay", FALSE, ""))
    /\ chain_pc' = "direct"
    /\ UNCHANGED <<script, chain_duration, result, temp_image_video>>
    /\ UNCHANGED <<imgvars, procvars, batchvars, tempvars, videovars, runvars,
                 toolvars>>

\* create_video_direct, the command exits zero: output_path is returned.
DirectCreated ==
    /\ chain_pc = "direct"
    /\ calls' = Append(calls, Call("direct", TRUE, ""))
    /\ result' = <<"direct">>
    /\ chain_pc' = "done"
    /\ UNCHANGED <<script, chain_duration, temp_image_video>>
    /\ UNCHANGED <<imgvars, procvars, batchvars, tempvars, videovars, runvars,
                 toolvars>>

\* create_video_direct, the command exits non-zero and the chain starts
\* over with the primary command.
DirectFailsStartsOver ==
    /\ chain_pc = "direct"
    /\ calls' = Append(calls, Call("direct", FALSE, ""))
    /\ chain_pc' = "primary"
    /\ UNCHANGED <<script, chain_duration, result, temp_image_video>>
    /\ UNCHANGED <<imgvars, procvars, batchvars, tempvars, videovars, runvars,
                 toolvars>>

\* create_video_direct, the command exits non-zero: None is returned.
DirectFails ==
    /\ chain_pc = "direct"
    /\ calls' = Append(calls, Call("direct", FALSE, ""))
    /\ result' = <<>>
    /\ chain_pc' = "done"
    /\ UNCHANGED <<script, chain_duration, temp_image_video>>
    /\ UNCHANGED <<imgvars, procvars, batchvars, tempvars, videovars, runvars,
                 toolvars>>

ChainNext ==
    \/ PrimaryExitsZero
    \/ PrimaryFails
    \/ ProbeFails
    \/ ProbeAccepted
    \/ ProbeRejected
    \/ AltImageCreated
    \/ AltImageFails
    \/ AltOverlayCreated
    \/ AltOverlayFails
    \/ DirectCreated
    \/ DirectFails

InitChain ==
    /\ script \in Scripts
    /\ chain_duration \in Durations
    /\ chain_pc = "primary"
    /\ calls = <<>>
    /\ result = <<>>
    /\ temp_image_video = FALSE
    /\ ImgIdle
    /\ ProcIdle
    /\ BatchIdle
    /\ TempIdle
    /\ VideoIdle
    /\ RunIdle
    /\ ToolsIdle

SpecChain == InitChain /\ [][ChainNext]_vars

(***************************************************************************)
(* Temporary directories: the converter classes keep one in self.temp_dir  *)
(* and remove it in __del__; process_image of poemtok_final and            *)
(* process_image_to_white_text of poemtok_styled_text make one per call    *)
(* when output_path is None.                                               *)
(***************************************************************************)
\* Calls of process_image, and files written by a converter, in one run.
MaxImages == 4

TempPrograms == {"advanced", "final", "styled_text"}

\* tempfile.mkdtemp(): a directory that did not exist before.
mkdtemp == Cardinality(temp_dirs) + 1

\* The recolor, the page loop, the batch and the fallback chains.
corevars == <<imgvars, procvars, batchvars, chainvars>>

\* PoemTokAdvanced.__init__: self.temp_dir = tempfile.mkdtemp().
ConverterInit ==
    /\ temp_pc = "start"
    /\ temp_program = "advanced"
    /\ self_temp_dir' = <<mkdtemp>>
    /\ temp_dirs' = temp_dirs \cup {mkdtemp}
    /\ temp_pc' = "running"
    /\ UNCHANGED <<temp_program, temp_log, removal_failed, temp_files>>
    /\ UNCHANGED <<corevars, videovars, runvars,
                 toolvars>>

\* The converter writes a file (subtitle.ass) into self.temp_dir.
ConverterWritesFile ==
    /\ temp_pc = "running"
    /\ temp_program = "advanced"
    /\ temp_files < MaxImages
    /\ temp_files' = temp_files + 1
    /\ UNCHANGED <<temp_program, temp_pc, temp_dirs, self_temp_dir, temp_log,
                   removal_failed>>
    /\ UNCHANGED <<corevars, videovars, runvars,
                 toolvars>>

\* __del__: shutil.rmtree(self.temp_dir) removes the directory and what is
\* in it.
ConverterDelRemoves ==
    /\ temp_pc = "running"
    /\ temp_program = "advanced"
    /\ temp_dirs' = temp_dirs \ {self_temp_dir[1]}
    /\ temp_files' = 0
    /\ temp_pc' = "torn_down"
    /\ UNCHANGED <<temp_program, self_temp_dir, temp_log, removal_failed>>
    /\ UNCHANGED <<corevars, videovars, runvars,
                 toolvars>>

\* __del__: shutil.rmtree raises and the bare except swallows it.
ConverterDelFails ==
    /\ temp_pc = "running"
    /\ temp_program = "advanced"
    /\ removal_failed' = TRUE
    /\ temp_pc' = "torn_down"
    /\ UNCHANGED <<temp_program, temp_dirs, self_temp_dir, temp_log,
                   temp_files>>
    /\ UNCHANGED <<corevars, videovars, runvars,
                 toolvars>>

\* The script's main() starts; the functions keep no directory of their own.
ScriptStarts ==
    /\ temp_pc = "start"
    /\ temp_program \in {"final", "styled_text"}
    /\ temp_pc' = "running"
    /\ UNCHANGED <<temp_program, temp_dirs, self_temp_dir, temp_log,
                   removal_failed, temp_files>>
    /\ UNCHANGED <<corevars, videovars, runvars,
                 toolvars>>

\* process_image / process_image_to_white_text with output_path None:
\* temp_dir = tempfile.mkdtemp(), the image is saved inside it and its path
\* returned.
ProcessImageNoOutputPath ==
    /\ temp_pc = "running"
    /\ temp_program \in {"final", "styled_text"}
    /\ Len(temp_log) < MaxImages
    /\ temp_dirs' = temp_dirs \cup {mkdtemp}
    /\ temp_log' = Append(temp_log, <<mkdtemp>>)
    /\ UNCHANGED <<temp_program, temp_pc, self_temp_dir, removal_failed,
                   temp_files>>
    /\ UNCHANGED <<corevars, videovars, runvars,
                 toolvars>>

\* The same call with an output_path: no directory is made.
ProcessImageWithOutputPath ==
    /\ temp_pc = "running"
    /\ temp_program \in {"final", "styled_text"}
    /\ Len(temp_log) < MaxImages
    /\ temp_log' = Append(temp_log, <<>>)
    /\ UNCHANGED <<temp_program, temp_pc, temp_dirs, self_temp_dir,
                   removal_failed, temp_files>>
    /\ UNCHANGED <<corevars, videovars, runvars,
                 toolvars>>

\* main() returns and the interpreter exits: no code removes the
\* directories process_image made.
ScriptExits ==
    /\ temp_pc = "running"
    /\ temp_program \in {"final", "styled_text"}
    /\ temp_pc' = "torn_down"
    /\ UNCHANGED <<temp_program, temp_dirs, self_temp_dir, temp_log,
                   removal_failed, temp_files>>
    /\ UNCHANGED <<corevars, videovars, runvars,
                 toolvars>>

TempNext ==
    \/ ConverterInit
    \/ ConverterWritesFile
    \/ ConverterDelRemoves
    \/ ConverterDelFails
    \/ ScriptStarts
    \/ ProcessImageNoOutputPath
    \/ ProcessImageWithOutputPath
    \/ ScriptExits

InitTemp ==
    /\ temp_program \in TempPrograms
    /\ temp_pc = "start"
    /\ temp_dirs = {}
    /\ self_temp_dir = <<>>
    /\ temp_log = <<>>
    /\ removal_failed = FALSE
    /\ temp_files = 0
    /\ ImgIdle
    /\ ProcIdle
    /\ BatchIdle
    /\ ChainIdle
    /\ VideoIdle
    /\ RunIdle
    /\ ToolsIdle

SpecTemp == InitTemp /\ [][TempNext]_vars

(***************************************************************************)
(* PoemTok.create_video of poemtok.py: the text overlay, then the          *)
(* background segment.                                                     *)
(***************************************************************************)
\* Durations of the video and of the background, in seconds.
MaxDuration == 4

\* Length of the text OCR returns.
MaxText == 2

Resolutions == {<<1080, 1920>>, <<720, 1280>>}

Whitespace == {" ", "\t"}

Chars == Whitespace \cup {"a"}

OcrTexts == UNION {[1..n -> Chars] : n \in 0..MaxText}

RECURSIVE lstrip(_)
lstrip(t) ==
    IF t = <<>> THEN <<>>
    ELSE IF Head(t) \in Whitespace THEN lstrip(Tail(t))
    ELSE t

RECURSIVE rstrip(_)
rstrip(t) ==
    IF t = <<>> THEN <<>>
    ELSE IF t[Len(t)] \in Whitespace THEN rstrip(SubSeq(t, 1, Len(t) - 1))
    ELSE t

\* str.strip()
strip(t) == rstrip(lstrip(t))

\* text and len(text.strip()) > 0
TextFound(t) == t # <<>> /\ Len(strip(t)) > 0

\* Image.new('RGBA', self.resolution, (0, 0, 0, 0)) with the page pasted on.
ImageOverlay == [mode |-> "RGBA", size |-> resolution, method |-> "image"]

\* TextStyler.create_minimalist_overlay: Image.new('RGBA', self.resolution)
\* of the styler.
StyledOverlay ==
    [mode |-> "RGBA", size |-> styler_resolution, method |-> "styled"]

\* HAS_PYTESSERACT is False: the image-based overlay.
OverlayOcrUnavailable ==
    /\ video_pc = "overlay"
    /\ ~has_pytesseract
    /\ overlay' = <<ImageOverlay>>
    /\ video_pc' = "background"
    /\ UNCHANGED <<has_pytesseract, resolution, styler_resolution, duration,
                   background_duration, ocr, text, render, segment>>
    /\ UNCHANGED <<corevars, tempvars, runvars,
                 toolvars>>

\* image_to_string raises and nothing catches it.
OverlayOcrRaisesPropagates ==
    /\ video_pc = "overlay"
    /\ has_pytesseract
    /\ ocr' = "raised"
    /\ video_pc' = "raised"
    /\ UNCHANGED <<has_pytesseract, resolution, styler_resolution, duration,
                   background_duration, text, render, overlay, segment>>
    /\ UNCHANGED <<corevars, tempvars, runvars,
                 toolvars>>

\* image_to_string raises: except Exception, then the image-based overlay.
OverlayOcrRaises ==
    /\ video_pc = "overlay"
    /\ has_pytesseract
    /\ ocr' = "raised"
    /\ overlay' = <<ImageOverlay>>
    /\ video_pc' = "background"
    /\ UNCHANGED <<has_pytesseract, resolution, styler_resolution, duration,
                   background_duration, text, render, segment>>
    /\ UNCHANGED <<corevars, tempvars, runvars,
                 toolvars>>

\* image_to_string returns empty or whitespace-only text: the image-based
\* overlay.
OverlayOcrNoText ==
    /\ video_pc = "overlay"
    /\ has_pytesseract
    /\ \E t \in OcrTexts :
           /\ ~TextFound(t)
           /\ text' = t
    /\ ocr' = "returned"
    /\ overlay' = <<ImageOverlay>>
    /\ video_pc' = "background"
    /\ UNCHANGED <<has_pytesseract, resolution, styler_resolution, duration,
                   background_duration, render, segment>>
    /\ UNCHANGED <<corevars, tempvars, runvars,
                 toolvars>>

\* image_to_string returns text and the styler renders it.
OverlayStyled ==
    /\ video_pc = "overlay"
    /\ has_pytesseract
    /\ \E t \in OcrTexts :
           /\ TextFound(t)
           /\ text' = t
    /\ ocr' = "returned"
    /\ render' = "ok"
    /\ overlay' = <<StyledOverlay>>
    /\ video_pc' = "background"
    /\ UNCHANGED <<has_pytesseract, resolution, styler_resolution, duration,
                   background_duration, segment>>
    /\ UNCHANGED <<corevars, tempvars, runvars,
                 toolvars>>

\* image_to_string returns text and create_minimalist_overlay raises inside
\* the same try: the image-based overlay.
OverlayRenderRaises ==
    /\ video_pc = "overlay"
    /\ has_pytesseract
    /\ \E t \in OcrTexts :
           /\ TextFound(t)
           /\ text' = t
    /\ ocr' = "returned"
    /\ render' = "raised"
    /\ overlay' = <<ImageOverlay>>
    /\ video_pc' = "background"
    /\ UNCHANGED <<has_pytesseract, resolution, styler_resolution, duration,
                   background_duration, segment>>
    /\ UNCHANGED <<corevars, tempvars, runvars,
                 toolvars>>

\* int(D / B) in place of the ceiling.
n_loops_floor(D, B) == D \div B

\* int(np.ceil(self.duration / background_video.duration))
n_loops(D, B) == (D + B - 1) \div B

\* The background is shorter than the video: loop(n=n_loops), then
\* subclip(0, self.duration); the video is written.
LoopBackground ==
    /\ video_pc = "background"
    /\ background_duration < duration
    /\ LET n == n_loops(duration, background_duration)
       IN segment' = <<[n_loops |-> n,
                        source |-> n * background_duration,
                        start |-> 0,
                        end |-> duration]>>
    /\ video_pc' = "done"
    /\ UNCHANGED <<has_pytesseract, resolution, styler_resolution, duration,
                   background_duration, ocr, text, render, overlay>>
    /\ UNCHANGED <<corevars, tempvars, runvars,
                 toolvars>>

\* Otherwise: start_time = random.uniform(0, max_start), then
\* subclip(start_time, start_time + self.duration); the video is written.
CutBackground ==
    /\ video_pc = "background"
    /\ ~(background_duration < duration)
    /\ LET max_start == Max(0, background_duration - duration)
       IN \E start_time \in 0..max_start :
              segment' = <<[n_loops |-> 1,
                            source |-> background_duration,
                            start |-> start_time,
                            end |-> start_time + duration]>>
    /\ video_pc' = "done"
    /\ UNCHANGED <<has_pytesseract, resolution, styler_resolution, duration,
                   background_duration, ocr, text, render, overlay>>
    /\ UNCHANGED <<corevars, tempvars, runvars,
                 toolvars>>

VideoNext ==
    \/ OverlayOcrUnavailable
    \/ OverlayOcrRaises
    \/ OverlayOcrNoText
    \/ OverlayStyled
    \/ OverlayRenderRaises
    \/ LoopBackground
    \/ CutBackground

InitVideo ==
    /\ has_pytesseract \in BOOLEAN
    /\ resolution \in Resolutions
    /\ styler_resolution = resolution
    /\ duration \in 1..MaxDuration
    /\ background_duration \in 1..MaxDuration
    /\ ocr = "not_called"
    /\ text = <<>>
    /\ render = "not_called"
    /\ overlay = <<>>
    /\ segment = <<>>
    /\ video_pc = "overlay"
    /\ ImgIdle
    /\ ProcIdle
    /\ BatchIdle
    /\ ChainIdle
    /\ TempIdle
    /\ RunIdle
    /\ ToolsIdle

SpecVideo == InitVideo /\ [][VideoNext]_vars

(***************************************************************************)
(* The page loop step by step, with the scratch file every page reuses:    *)
(* subtitle.ass (poemtok_advanced), text.txt (poemtok_simple), overlay.png *)
(* (poemtok).                                                              *)
(***************************************************************************)
RunScripts == {"advanced", "simple", "poemtok"}

\* Line n of page k; n = 0 is a blank line.
Line(k, n) == [page |-> k, n |-> n]

\* What a page may hold: nothing, one line, two lines around a blank one.
PageTexts(k) == {<<>>, <<Line(k, 1)>>, <<Line(k, 1), Line(k, 0), Line(k, 2)>>}

\* line.strip() is true
NonBlank(l) == l.n # 0

\* What the converter puts into the scratch file for a page:
\* create_advanced_subtitle writes the header and one event per non-blank
\* line; create_text_file writes the whole text; PoemTok saves the overlay
\* of the page.
Render(sc, page_text) ==
    IF sc = "advanced"
    THEN [header |-> TRUE, lines |-> SelectSeq(page_text, NonBlank)]
    ELSE [header |-> FALSE, lines |-> page_text]

\* open(output_path, 'a'): what is written comes after what was there.
open_a(old, content) ==
    IF old = <<>> THEN <<content>>
    ELSE <<[header |-> content.header,
            lines |-> old[1].lines \o content.lines]>>

\* open(output_path, 'w'), overlay.save(overlay_path): the file holds what
\* is written and nothing else.
open_w(old, content) == <<content>>

\* The scratch file is written for the next page.
WriteScratch ==
    /\ run_pc = "write"
    /\ run_i < Len(run_texts)
    /\ scratch' = open_w(scratch, Render(run_script, run_texts[run_i + 1]))
    /\ run_pc' = "tool"
    /\ UNCHANGED <<run_script, run_texts, run_i, in_flight, tool_log,
                   run_outputs>>
    /\ UNCHANGED <<corevars, tempvars, videovars,
                 toolvars>>

\* The tool is started without waiting for it (Popen): the loop goes on
\* to the next page.
ToolStartsDetached ==
    /\ run_pc = "tool"
    /\ in_flight' = in_flight \cup {run_i + 1}
    /\ tool_log' = Append(tool_log,
                          [ev |-> "start", page |-> run_i + 1, read |-> scratch])
    /\ run_i' = run_i + 1
    /\ run_pc' = "write"
    /\ UNCHANGED <<run_script, run_texts, scratch, run_outputs>>
    /\ UNCHANGED <<corevars, tempvars, videovars,
                 toolvars>>

\* subprocess.run (write_videofile in poemtok.py) starts the tool, which
\* reads the scratch file; the caller blocks.
ToolStarts ==
    /\ run_pc = "tool"
    /\ in_flight' = in_flight \cup {run_i + 1}
    /\ tool_log' = Append(tool_log,
                          [ev |-> "start", page |-> run_i + 1, read |-> scratch])
    /\ run_pc' = "wait"
    /\ UNCHANGED <<run_script, run_texts, run_i, scratch, run_outputs>>
    /\ UNCHANGED <<corevars, tempvars, videovars,
                 toolvars>>

\* The tool returns with success: the output is appended; poemtok.py also
\* removes overlay.png.
ToolExitsZero ==
    /\ run_pc = "wait"
    /\ in_flight' = in_flight \ {run_i + 1}
    /\ tool_log' = Append(tool_log,
                          [ev |-> "return", page |-> run_i + 1, read |-> <<>>])
    /\ run_outputs' = Append(run_outputs, run_i + 1)
    /\ scratch' = IF run_script = "poemtok" THEN <<>> ELSE scratch
    /\ run_i' = run_i + 1
    /\ run_pc' = "write"
    /\ UNCHANGED <<run_script, run_texts>>
    /\ UNCHANGED <<corevars, tempvars, videovars,
                 toolvars>>

\* The tool fails: CalledProcessError is caught and the loop goes on
\* (advanced, simple); in poemtok.py the exception leaves process().
ToolFails ==
    /\ run_pc = "wait"
    /\ in_flight' = in_flight \ {run_i + 1}
    /\ tool_log' = Append(tool_log,
                          [ev |-> "return", page |-> run_i + 1, read |-> <<>>])
    /\ IF run_script = "poemtok"
       THEN /\ run_pc' = "raised"
            /\ run_i' = run_i
       ELSE /\ run_pc' = "write"
            /\ run_i' = run_i + 1
    /\ UNCHANGED <<run_script, run_texts, scratch, run_outputs>>
    /\ UNCHANGED <<corevars, tempvars, videovars,
                 toolvars>>

\* The for loop is exhausted: process() returns.
RunReturns ==
    /\ run_pc = "write"
    /\ run_i = Len(run_texts)
    /\ run_pc' = "done"
    /\ UNCHANGED <<run_script, run_texts, run_i, scratch, in_flight,
                   tool_log, run_outputs>>
    /\ UNCHANGED <<corevars, tempvars, videovars,
                 toolvars>>

RunNext ==
    \/ WriteScratch
    \/ ToolStarts
    \/ ToolExitsZero
    \/ ToolFails
    \/ RunReturns

InitRun ==
    /\ run_script \in RunScripts
    /\ \E n \in 0..MaxPages :
           \E texts \in [1..n -> UNION {PageTexts(k) : k \in 1..n}] :
               /\ \A k \in 1..n : texts[k] \in PageTexts(k)
               /\ run_texts = texts
    /\ run_i = 0
    /\ run_pc = "write"
    /\ scratch = <<>>
    /\ in_flight = {}
    /\ tool_log = <<>>
    /\ run_outputs = <<>>
    /\ ImgIdle
    /\ ProcIdle
    /\ BatchIdle
    /\ ChainIdle
    /\ TempIdle
    /\ VideoIdle
    /\ ToolsIdle

SpecRun == InitRun /\ [][RunNext]_vars

(***************************************************************************)
(* poemtok_final: main() hands the command line to create_video, which     *)
(* processes the image, composites with ffmpeg and probes the result.      *)
(***************************************************************************)
\* Sizes of the screenshot given on the command line.
FinalSizes == {<<1, 1>>, <<2, 1>>}

\* --contrast values: the default 2.0 and 3.0
Contrasts == {2, 3}

\* The groups poemtok_final leaves alone.
notfinal == <<procvars, batchvars, chainvars, tempvars, videovars, runvars,
              fmtvars, cropvars, shotvars>>

\* create_video calls process_image(image_path): bg_opacity and contrast
\* take the defaults of the signature, 0.8 and 2.0; the threshold is 200.
FinalProcessImage ==
    /\ final_pc = "process_image"
    /\ bg_opacity' = 80
    /\ threshold' = 200
    /\ LET r == Recolor("process_image", high_contrast, image_size, 200, 80)
       IN /\ processed' = r.img
          /\ putcount' = r.puts
          /\ first_processed' = r.img
    /\ passes' = 1
    /\ final_pc' = "ffmpeg"
    /\ UNCHANGED <<func, image_size, high_contrast>>
    /\ UNCHANGED <<args_bg_opacity, args_contrast, final_calls, final_result>>
    /\ UNCHANGED notfinal

\* The compositing command exits zero; the probe comes next.
FinalFfmpegExitsZero ==
    /\ final_pc = "ffmpeg"
    /\ final_calls' = Append(final_calls, Call("ffmpeg", TRUE, ""))
    /\ final_pc' = "probe"
    /\ UNCHANGED <<args_bg_opacity, args_contrast, final_result>>
    /\ UNCHANGED <<imgvars, notfinal>>

\* The compositing command exits non-zero: CalledProcessError, None.
FinalFfmpegFails ==
    /\ final_pc = "ffmpeg"
    /\ final_calls' = Append(final_calls, Call("ffmpeg", FALSE, ""))
    /\ final_result' = <<>>
    /\ final_pc' = "done"
    /\ UNCHANGED <<args_bg_opacity, args_contrast>>
    /\ UNCHANGED <<imgvars, notfinal>>

\* ffprobe exits non-zero: check=True raises CalledProcessError inside the
\* same try, and None is returned.
FinalProbeFails ==
    /\ final_pc = "probe"
    /\ final_calls' = Append(final_calls, Call("probe", FALSE, ""))
    /\ final_result' = <<>>
    /\ final_pc' = "done"
    /\ UNCHANGED <<args_bg_opacity, args_contrast>>
    /\ UNCHANGED <<imgvars, notfinal>>

\* ffprobe exits zero and its output decides as in poemtok_fixed: None
\* unless it reads as a duration of at least 0.1.
FinalProbeReturnsVerified ==
    /\ final_pc = "probe"
    /\ \E out \in ProbeStdout :
           /\ final_calls' = Append(final_calls, Call("probe", TRUE, out))
           /\ final_result' = IF FixedVerify(out) = "return"
                              THEN <<"output_path">> ELSE <<>>
    /\ final_pc' = "done"
    /\ UNCHANGED <<args_bg_opacity, args_contrast>>
    /\ UNCHANGED <<imgvars, notfinal>>

\* ffprobe exits zero: the duration is printed, or "Could not verify" on
\* ValueError; output_path is returned either way.
FinalProbeReturns ==
    /\ final_pc = "probe"
    /\ \E out \in ProbeStdout :
           final_calls' = Append(final_calls, Call("probe", TRUE, out))
    /\ final_result' = <<"output_path">>
    /\ final_pc' = "done"
    /\ UNCHANGED <<args_bg_opacity, args_contrast>>
    /\ UNCHANGED <<imgvars, notfinal>>

FinalNext ==
    \/ FinalProcessImage
    \/ FinalFfmpegExitsZero
    \/ FinalFfmpegFails
    \/ FinalProbeFails
    \/ FinalProbeReturns

\* main(): every --bg-opacity and --contrast; the screenshot after its
\* grayscale steps, on small grids.
InitFinal ==
    /\ args_bg_opacity \in Opacities
    /\ args_contrast \in Contrasts
    /\ final_pc = "process_image"
    /\ final_calls = <<>>
    /\ final_result = <<>>
    /\ func = "process_image"
    /\ image_size \in FinalSizes
    /\ threshold = 200
    /\ bg_opacity = 80
    /\ high_contrast \in [Pixels(image_size) -> GridSamples(func, threshold)]
    /\ ImgStart
    /\ ProcIdle
    /\ BatchIdle
    /\ ChainIdle
    /\ TempIdle
    /\ VideoIdle
    /\ RunIdle
    /\ FmtIdle
    /\ CropIdle
    /\ ShotIdle

SpecFinal == InitFinal /\ [][FinalNext]_vars

(***************************************************************************)
(* The text formatters: PoemTokStyled._format_text, PoemTokFFmpeg.         *)
(* create_subtitle_file and PoemTokAdvanced.create_advanced_subtitle.      *)
(* A word is [id, len]: its position in text.split() and its length.       *)
(***************************************************************************)
\* Words (or, for create_advanced_subtitle, lines) in one text.
MaxWords == 3

Formatters == {"_format_text", "create_subtitle_file",
               "create_advanced_subtitle"}

\* max_line_length values tried with _format_text, and its word lengths.
FormatLimits == {1, 3, 5}
FormatWordLengths == {1, 2, 6}

\* "max 40 chars per line" of create_subtitle_file, and word lengths on
\* both sides of it.
SubtitleLimit == 40
SubtitleWordLengths == {1, 20, 39, 40, 41}

\* Lengths of the lines create_advanced_subtitle is given: blank or not.
AdvancedLineLengths == {0, 1}

\* duration values: 0, the default 5, 15 and more than a minute.
FmtDurations == {0, 5, 15, 75}

\* Every text of up to MaxWords words with lengths from L.
Texts(L) ==
    UNION {{[i \in 1..n |-> [id |-> i, len |-> f[i]]] : f \in [1..n -> L]} :
               n \in 0..MaxWords}

\* len() of the words of a line joined by single spaces.
RECURSIVE LineLen(_)
LineLen(line) ==
    IF line = <<>> THEN 0
    ELSE IF Len(line) = 1 THEN line[1].len
    ELSE line[1].len + 1 + LineLen(Tail(line))

\* The loop body of _format_text without "and current_line".
format_text_word_unguarded(acc, word, limit) ==
    IF LineLen(acc.current_line) + word.len + 1 > limit
    THEN [lines |-> Append(acc.lines, acc.current_line),
          current_line |-> <<word>>]
    ELSE [lines |-> acc.lines,
          current_line |-> Append(acc.current_line, word)]

\* The loop body of _format_text: a new line when the word would not fit
\* and the line is not empty, else the word joins the line.
format_text_word(acc, word, limit) ==
    IF /\ LineLen(acc.current_line) + word.len + 1 > limit
       /\ acc.current_line # <<>>
    THEN [lines |-> Append(acc.lines, acc.current_line),
          current_line |-> <<word>>]
    ELSE [lines |-> acc.lines,
          current_line |-> Append(acc.current_line, word)]

\* The loop body of create_subtitle_file: the word joins the line when it
\* fits, else the line is emitted as it is.
subtitle_word(acc, word, limit) ==
    IF LineLen(acc.current_line) + word.len + 1 <= limit
    THEN [lines |-> acc.lines,
          current_line |-> Append(acc.current_line, word)]
    ELSE [lines |-> Append(acc.lines, acc.current_line),
          current_line |-> <<word>>]

\* for word in words: ...
RECURSIVE WordLoop(_, _, _, _, _)
WordLoop(f, ws, limit, i, acc) ==
    IF i > Len(ws) THEN acc
    ELSE WordLoop(f, ws, limit, i + 1,
                  IF f = "_format_text"
                  THEN format_text_word(acc, ws[i], limit)
                  ELSE subtitle_word(acc, ws[i], limit))

\* The loop, then "if current_line: lines.append(current_line)".
WrapLines(f, ws, limit) ==
    LET acc == WordLoop(f, ws, limit, 1, [lines |-> <<>>, current_line |-> <<>>])
    IN IF acc.current_line # <<>> THEN Append(acc.lines, acc.current_line)
       ELSE acc.lines

\* A timestamp by its fields: hours, minutes, seconds, fraction.
Timestamp(h, m, sec, frac) == [h |-> h, m |-> m, s |-> sec, frac |-> frac]

\* "00:00:00,000 --> 00:{duration:02d}:00,000" and
\* "0:00:00.00,0:{self.duration:02d}:00.00": the duration is written into
\* the minutes field.
Cue(d) ==
    [start |-> Timestamp(0, 0, 0, 0), end |-> Timestamp(0, d, 0, 0)]

\* The groups the formatters leave alone.
notfmt == <<imgvars, procvars, batchvars, chainvars, tempvars, videovars,
            runvars, finalvars, cropvars, shotvars>>

\* PoemTokStyled._format_text(text, max_line_length)
format_text ==
    /\ fmt_pc = "start"
    /\ fmt_func = "_format_text"
    /\ lines' = WrapLines(fmt_func, words, max_line_length)
    /\ fmt_pc' = "done"
    /\ UNCHANGED <<fmt_func, words, max_line_length, fmt_duration, cue>>
    /\ UNCHANGED notfmt

\* PoemTokFFmpeg.create_subtitle_file(text, duration, output_path)
create_subtitle_file ==
    /\ fmt_pc = "start"
    /\ fmt_func = "create_subtitle_file"
    /\ lines' = WrapLines(fmt_func, words, SubtitleLimit)
    /\ cue' = <<Cue(fmt_duration)>>
    /\ fmt_pc' = "done"
    /\ UNCHANGED <<fmt_func, words, max_line_length, fmt_duration>>
    /\ UNCHANGED notfmt

\* line.strip() of a line of the text
NonBlankLine(l) == l.len > 0

\* PoemTokAdvanced.create_advanced_subtitle: one Dialogue event per
\* non-blank line, all with the same timestamps.
create_advanced_subtitle ==
    /\ fmt_pc = "start"
    /\ fmt_func = "create_advanced_subtitle"
    /\ LET events == SelectSeq(words, NonBlankLine)
       IN lines' = [k \in 1..Len(events) |-> <<events[k]>>]
    /\ cue' = <<Cue(fmt_duration)>>
    /\ fmt_pc' = "done"
    /\ UNCHANGED <<fmt_func, words, max_line_length, fmt_duration>>
    /\ UNCHANGED notfmt

FmtNext ==
    \/ format_text
    \/ create_subtitle_file
    \/ create_advanced_subtitle

InitFmt ==
    /\ fmt_func \in Formatters
    /\ words \in (CASE fmt_func = "_format_text" -> Texts(FormatWordLengths)
                    [] fmt_func = "create_subtitle_file"
                           -> Texts(SubtitleWordLengths)
                    [] OTHER -> Texts(AdvancedLineLengths))
    /\ max_line_length \in (IF fmt_func = "_format_text" THEN FormatLimits
                            ELSE {SubtitleLimit})
    /\ fmt_duration \in (IF fmt_func = "_format_text" THEN {5}
                         ELSE FmtDurations)
    /\ lines = <<>>
    /\ cue = <<>>
    /\ fmt_pc = "start"
    /\ ImgIdle
    /\ ProcIdle
    /\ BatchIdle
    /\ ChainIdle
    /\ TempIdle
    /\ VideoIdle
    /\ RunIdle
    /\ FinalIdle
    /\ CropIdle
    /\ ShotIdle

SpecFmt == InitFmt /\ [][FmtNext]_vars

(***************************************************************************)
(* PoemTok.prepare_background_video: the centre crop to the aspect of the  *)
(* target resolution.                                                      *)
(***************************************************************************)
\* Width and height of the source video, in pixels.
MaxSide == 6

\* self.resolution: the default, a landscape and a square target, and 3:4.
CropResolutions == {<<1080, 1920>>, <<1920, 1080>>, <<1, 1>>, <<3, 4>>}

\* int(a / b) for b > 0: true division, truncated toward zero.
int_div(a, b) == IF a >= 0 THEN a \div b ELSE 0 - ((0 - a) \div b)

\* video.w / video.h > self.resolution[0] / self.resolution[1]
Wider(size, res) == size[1] * res[2] > res[1] * size[2]

\* The window put at the left or top edge.
centre_at_edge(total, part) == 0

\* x1 = int((video.w - new_width) / 2), y1 likewise
centre(total, part) == int_div(total - part, 2)

\* The groups prepare_background_video leaves alone.
notcrop == <<imgvars, procvars, batchvars, chainvars, tempvars, videovars,
             runvars, finalvars, fmtvars, shotvars>>

\* The video is wider than the target aspect: the width is cropped.
CropWidth ==
    /\ crop_pc = "start"
    /\ Wider(video_size, crop_resolution)
    /\ LET new_width == int_div(video_size[2] * crop_resolution[1],
                                crop_resolution[2])
           x1 == centre(video_size[1], new_width)
       IN crop' = <<[x1 |-> x1, y1 |-> 0,
                     x2 |-> x1 + new_width, y2 |-> video_size[2]]>>
    /\ crop_pc' = "done"
    /\ UNCHANGED <<video_size, crop_resolution>>
    /\ UNCHANGED notcrop

\* Otherwise the height is cropped.
CropHeight ==
    /\ crop_pc = "start"
    /\ ~Wider(video_size, crop_resolution)
    /\ LET new_height == int_div(video_size[1] * crop_resolution[2],
                                 crop_resolution[1])
           y1 == centre(video_size[2], new_height)
       IN crop' = <<[x1 |-> 0, y1 |-> y1,
                     x2 |-> video_size[1], y2 |-> y1 + new_height]>>
    /\ crop_pc' = "done"
    /\ UNCHANGED <<video_size, crop_resolution>>
    /\ UNCHANGED notcrop

CropNext ==
    \/ CropWidth
    \/ CropHeight

InitCrop ==
    /\ video_size \in (1..MaxSide) \X (1..MaxSide)
    /\ crop_resolution \in CropResolutions
    /\ crop = <<>>
    /\ crop_pc = "start"
    /\ ImgIdle
    /\ ProcIdle
    /\ BatchIdle
    /\ ChainIdle
    /\ TempIdle
    /\ VideoIdle
    /\ RunIdle
    /\ FinalIdle
    /\ FmtIdle
    /\ ShotIdle

SpecCrop == InitCrop /\ [][CropNext]_vars

(***************************************************************************)
(* take_screenshots.save_pdf_pages_as_images: pdf2image first, the         *)
(* per-page matplotlib renderer when that raises.                          *)
(***************************************************************************)
\* The groups save_pdf_pages_as_images leaves alone.
notshot == <<imgvars, procvars, batchvars, chainvars, tempvars, videovars,
             runvars, finalvars, fmtvars, cropvars>>

Shot(by, page, ok) == [by |-> by, page |-> page, ok |-> ok]

\* start_page = max(1, start_page); end_page = total_pages when it is None
\* or beyond the end.
ShotAdjustRange ==
    /\ shot_pc = "start"
    /\ shot_start' = Max(1, shot_start)
    /\ shot_end' = IF shot_end = None \/ shot_end[1] > shot_total
                   THEN <<shot_total>> ELSE shot_end
    /\ shot_pc' = "convert"
    /\ UNCHANGED <<shot_total, shot_page, image_paths, shot_log, shot_raised>>
    /\ UNCHANGED notshot

\* convert_from_path raises (poppler missing, unreadable file): the handler
\* starts the fallback with an empty list.
ConvertRaises ==
    /\ shot_pc = "convert"
    /\ shot_log' = Append(shot_log, Shot("convert", 0, FALSE))
    /\ image_paths' = <<>>
    /\ shot_page' = shot_start
    /\ shot_pc' = "fallback"
    /\ UNCHANGED <<shot_total, shot_start, shot_end, shot_raised>>
    /\ UNCHANGED notshot

\* convert_from_path returns the images of pages start_page..end_page.
ConvertReturns ==
    /\ shot_pc = "convert"
    /\ shot_log' = Append(shot_log, Shot("convert", 0, TRUE))
    /\ image_paths' = <<>>
    /\ shot_page' = shot_start
    /\ shot_pc' = "save"
    /\ UNCHANGED <<shot_total, shot_start, shot_end, shot_raised>>
    /\ UNCHANGED notshot

\* image.save(image_path) succeeds: the path is appended.
PrimaryPageSaved ==
    /\ shot_pc = "save"
    /\ shot_page <= shot_end[1]
    /\ shot_log' = Append(shot_log, Shot("primary", shot_page, TRUE))
    /\ image_paths' = Append(image_paths, shot_page)
    /\ shot_page' = shot_page + 1
    /\ UNCHANGED <<shot_total, shot_start, shot_end, shot_pc, shot_raised>>
    /\ UNCHANGED notshot

\* image.save raises and the handler keeps the paths collected so far.
PrimarySaveRaisesKeepsPaths ==
    /\ shot_pc = "save"
    /\ shot_page <= shot_end[1]
    /\ shot_log' = Append(shot_log, Shot("primary", shot_page, FALSE))
    /\ shot_page' = shot_start
    /\ shot_pc' = "fallback"
    /\ UNCHANGED <<shot_total, shot_start, shot_end, image_paths, shot_raised>>
    /\ UNCHANGED notshot

\* image.save raises inside the try: the handler starts the fallback with
\* image_paths = [].
PrimarySaveRaises ==
    /\ shot_pc = "save"
    /\ shot_page <= shot_end[1]
    /\ shot_log' = Append(shot_log, Shot("primary", shot_page, FALSE))
    /\ image_paths' = <<>>
    /\ shot_page' = shot_start
    /\ shot_pc' = "fallback"
    /\ UNCHANGED <<shot_total, shot_start, shot_end, shot_raised>>
    /\ UNCHANGED notshot

\* Every image is saved: return image_paths.
PrimaryReturns ==
    /\ shot_pc = "save"
    /\ shot_page > shot_end[1]
    /\ shot_pc' = "done"
    /\ UNCHANGED <<shot_total, shot_start, shot_end, shot_page, image_paths,
                   shot_log, shot_raised>>
    /\ UNCHANGED notshot

\* The fallback renders and saves page_num: the path is appended.
FallbackPageSaved ==
    /\ shot_pc = "fallback"
    /\ shot_page <= shot_end[1]
    /\ shot_log' = Append(shot_log, Shot("fallback", shot_page, TRUE))
    /\ image_paths' = Append(image_paths, shot_page)
    /\ shot_page' = shot_page + 1
    /\ UNCHANGED <<shot_total, shot_start, shot_end, shot_pc, shot_raised>>
    /\ UNCHANGED notshot

\* The fallback raises on page_num: except Exception prints and the loop
\* goes on.
FallbackPageFails ==
    /\ shot_pc = "fallback"
    /\ shot_page <= shot_end[1]
    /\ shot_log' = Append(shot_log, Shot("fallback", shot_page, FALSE))
    /\ shot_page' = shot_page + 1
    /\ UNCHANGED <<shot_total, shot_start, shot_end, shot_pc, image_paths,
                   shot_raised>>
    /\ UNCHANGED notshot

\* range(start_page, end_page + 1) is exhausted: return image_paths.
FallbackReturns ==
    /\ shot_pc = "fallback"
    /\ shot_page > shot_end[1]
    /\ shot_pc' = "done"
    /\ UNCHANGED <<shot_total, shot_start, shot_end, shot_page, image_paths,
                   shot_log, shot_raised>>
    /\ UNCHANGED notshot

ShotNext ==
    \/ ShotAdjustRange
    \/ ConvertRaises
    \/ ConvertReturns
    \/ PrimaryPageSaved
    \/ PrimarySaveRaises
    \/ PrimaryReturns
    \/ FallbackPageSaved
    \/ FallbackPageFails
    \/ FallbackReturns

InitShot ==
    /\ shot_total \in 0..MaxPages
    /\ shot_start \in 0..(MaxPages + 1)
    /\ shot_end \in {None} \cup {<<n>> : n \in 0..(MaxPages + 1)}
    /\ shot_pc = "start"
    /\ shot_page = 0
    /\ image_paths = <<>>
    /\ shot_log = <<>>
    /\ shot_raised = FALSE
    /\ ImgIdle
    /\ ProcIdle
    /\ BatchIdle
    /\ ChainIdle
    /\ TempIdle
    /\ VideoIdle
    /\ RunIdle
    /\ FinalIdle
    /\ FmtIdle
    /\ CropIdle

SpecShot == InitShot /\ [][ShotNext]_vars

(***************************************************************************)
(* Properties of the threshold recolor, checked under SpecImage.           *)
(***************************************************************************)
TwoTone == {"process_image_to_white_text", "process_image",
            "PoemTokImage.process_image"}

\* The threshold the function compares with: its argument, or the fixed 200.
EffectiveThreshold ==
    IF func = "process_image_to_white_text" THEN threshold ELSE 200

\* C1: after a two-tone recolor every pixel of intensity I > T is
\* (255,255,255,255) and every pixel of intensity I <= T, I = T included, is
\* (0,0,0,A) with A = int(255 * bg_opacity).
C1_ThresholdRecolor ==
    (passes >= 1 /\ func \in TwoTone) =>
        \A p \in Pixels(image_size) :
            LET I == high_contrast[p]
                A == (255 * bg_opacity) \div 100
            IN /\ I > EffectiveThreshold => processed.px[p] = <<255, 255, 255, 255>>
               /\ I <= EffectiveThreshold => processed.px[p] = <<0, 0, 0, A>>
               /\ I = EffectiveThreshold => processed.px[p][4] = A

C1_Witness ==
    /\ passes = 1
    /\ func = "process_image_to_white_text"
    /\ image_size = <<4, 4>>
    /\ threshold = 180
    /\ bg_opacity = 70
    /\ high_contrast[<<0, 1>>] = 180
    /\ high_contrast[<<1, 1>>] = 181
    /\ processed.px[<<0, 1>>] = <<0, 0, 0, 178>>
    /\ processed.px[<<1, 1>>] = <<255, 255, 255, 255>>

\* C2: recoloring the recolored image again with the same threshold gives
\* the image of the first recoloring.
C2_Idempotent ==
    passes = 2 => (processed = first_processed /\ processed.size = image_size)

C2_Witness ==
    /\ passes = 2
    /\ threshold = 180
    /\ image_size = <<2, 2>>
    /\ processed = first_processed
    /\ \E p, q \in Pixels(image_size) :
           /\ processed.px[p] = <<255, 255, 255, 255>>
           /\ processed.px[q] = <<0, 0, 0, 204>>
           /\ high_contrast[p] = 255
           /\ high_contrast[q] = 0

\* C3: the soft-band variant writes (255,255,255,255) for I > 200,
\* (255,255,255,I) for 100 < I <= 200 and (0,0,0,bg_alpha) for I <= 100, and
\* every intensity falls in exactly one band.
C3_SoftBand ==
    (passes >= 1 /\ func = "PoemTokScreenshot.process_image") =>
        \A p \in Pixels(image_size) :
            LET I == high_contrast[p]
                A == (255 * bg_opacity) \div 100
                top == I > 200
                mid == 100 < I /\ I <= 200
                low == I <= 100
            IN /\ top => processed.px[p] = <<255, 255, 255, 255>>
               /\ mid => processed.px[p] = <<255, 255, 255, I>>
               /\ low => processed.px[p] = <<0, 0, 0, A>>
               /\ (top \/ mid \/ low)
               /\ ~(top /\ mid) /\ ~(mid /\ low) /\ ~(top /\ low)

C3_Witness ==
    /\ passes = 1
    /\ func = "PoemTokScreenshot.process_image"
    /\ image_size = <<4, 4>>
    /\ bg_opacity = 80
    /\ high_contrast[<<0, 2>>] = 200
    /\ processed.px[<<3, 1>>] = <<255, 255, 255, 199>>
    /\ processed.px[<<0, 2>>] = <<255, 255, 255, 200>>
    /\ processed.px[<<1, 2>>] = <<255, 255, 255, 255>>

\* C4: the output has the size of the input, every pixel is written exactly
\* once, equal intensities give equal output pixels wherever they lie, and a
\* pixel still holds the fill value (0,0,0,0) only if the background alpha
\* is 0.
C4_TotalShapePreserving ==
    passes >= 1 =>
        /\ processed.size = image_size
        /\ DOMAIN processed.px = Pixels(image_size)
        /\ \A p \in Pixels(image_size) : putcount[p] = 1
        /\ \A p, q \in Pixels(image_size) :
               high_contrast[p] = high_contrast[q] =>
                   processed.px[p] = processed.px[q]
        /\ \A p \in Pixels(image_size) :
               processed.px[p] = <<0, 0, 0, 0>> => (255 * bg_opacity) \div 100 = 0

C4_Witness ==
    /\ passes = 1
    /\ func = "PoemTokImage.process_image"
    /\ image_size = <<2, 2>>
    /\ bg_opacity = 80
    /\ high_contrast[<<0, 0>>] = 201
    /\ high_contrast[<<1, 1>>] = 200
    /\ processed.px[<<0, 0>>] = <<255, 255, 255, 255>>
    /\ processed.px[<<1, 1>>] = <<0, 0, 0, 204>>
    /\ \A p \in Pixels(image_size) : putcount[p] = 1

(***************************************************************************)
(* Properties of the page range and the video loop, under SpecProcess.     *)
(***************************************************************************)
\* C5: an end_page that is None or beyond the document becomes total_pages,
\* a start_page below 1 becomes 1, and a start_page >= 1 or an end_page
\* <= total_pages is left as given.
C5_Clamping ==
    pc # "start" =>
        /\ (end_page = <<>> => ext_end = total_pages)
        /\ (end_page # <<>> =>
               /\ end_page[1] > total_pages => ext_end = total_pages
               /\ end_page[1] <= total_pages => ext_end = end_page[1])
        /\ (start_page < 1 => ext_start = 1)
        /\ (start_page >= 1 => ext_start = start_page)

C5_Witness ==
    /\ pc = "done"
    /\ total_pages = 3
    /\ start_page = 0 - 1
    /\ end_page = <<4>>
    /\ ext_start = 1
    /\ ext_end = 3
    /\ Len(page_texts) = 3

\* C6: whatever the start_page and end_page, the extraction never fails,
\* every page of the adjusted range start..end is a page of the document,
\* the loop only indexes pages 0..total_pages-1, and an empty range
\* processes zero pages.
C6_NoHardFailure ==
    /\ pc # "crashed"
    /\ accessed \subseteq 0..(total_pages - 1)
    /\ pc # "start" =>
           /\ \A n \in ext_start..ext_end : 1 <= n /\ n <= total_pages
           /\ ext_end < ext_start => page_texts = <<>>
           /\ \A k \in 1..Len(page_texts) :
                  page_texts[k] \in 0..(total_pages - 1)
           /\ accessed = {n - 1 : n \in ext_start..ext_end}

C6_Witness ==
    /\ pc = "done"
    /\ total_pages = 3
    /\ start_page = 4
    /\ end_page = <<0 - 1>>
    /\ page_texts = <<>>
    /\ invoked = <<>>

AllSucceeded == \A k \in 1..Len(invoked) : invoked[k].ok

\* C7: when every invocation succeeds, process() returns one output per
\* page of the clamped range, hence total_pages outputs for the default
\* range.
C7_OnePerPage ==
    (pc = "done" /\ AllSucceeded) =>
        LET first == IF start_page < 1 THEN 1 ELSE start_page
            last == IF end_page = <<>> THEN total_pages
                    ELSE IF end_page[1] > total_pages THEN total_pages
                    ELSE end_page[1]
        IN /\ Len(output_videos) = Cardinality(first..last)
           /\ \A n \in first..last :
                  Cardinality({k \in 1..Len(invoked) :
                                   invoked[k].page = n - 1}) = 1
           /\ (start_page = 1 /\ end_page = <<>>) =>
                  Len(output_videos) = total_pages

C7_Witness ==
    /\ pc = "done"
    /\ AllSucceeded
    /\ total_pages = 3
    /\ start_page = 1
    /\ end_page = <<>>
    /\ Len(output_videos) = 3

\* C8: every output carries in its name the 1-indexed number of the page
\* it shows.
C8_NamedByPageIndex ==
    \A k \in 1..Len(invoked) : invoked[k].name = invoked[k].page + 1

\* C9: a failed page yields no output and does not stop the loop: when
\* process() returns, every page of the range was submitted, in order,
\* whichever of them failed.
C9_FailureDoesNotAbort ==
    /\ pc # "crashed"
    /\ \A k \in 1..Len(invoked) :
           /\ invoked[k].page = page_texts[k]
           /\ ~invoked[k].ok =>
                  \A j \in 1..Len(output_videos) :
                      output_videos[j] # invoked[k].name
    /\ pc = "done" => Len(invoked) = Len(page_texts)

C9_Witness ==
    /\ pc = "done"
    /\ Len(page_texts) = 3
    /\ Len(invoked) = 3
    /\ ~invoked[1].ok
    /\ invoked[2].ok
    /\ invoked[3].ok
    /\ Len(output_videos) = 2

\* C10: the list holds exactly the paths of the invocations that exited
\* zero, in ascending page order, each once.
C10_ExactlySucceeded ==
    /\ \A k \in 1..Len(invoked) :
           invoked[k].ok <=>
               \E j \in 1..Len(output_videos) :
                   output_videos[j] = invoked[k].name
    /\ \A j \in 1..Len(output_videos) :
           \E k \in 1..Len(invoked) :
               invoked[k].ok /\ invoked[k].name = output_videos[j]
    /\ \A i, j \in 1..Len(output_videos) :
           i < j => output_videos[i] < output_videos[j]

C10_Witness ==
    /\ pc = "done"
    /\ Len(invoked) = 3
    /\ invoked[1].ok
    /\ ~invoked[2].ok
    /\ invoked[3].ok
    /\ output_videos = <<invoked[1].name, invoked[3].name>>

(***************************************************************************)
(* Properties of batch_process_to_videos, under SpecBatch.                 *)
(***************************************************************************)
\* C11: every path in the returned list belongs to a screenshot whose
\* poemtok_final.py invocation exited zero.
C11_OnlyCreatedVideos ==
    \A j \in 1..Len(video_paths) :
        \E k \in 1..Len(exit_codes) :
            /\ BatchOutputPath(screenshot_paths[k]) = video_paths[j]
            /\ exit_codes[k] = 0

(***************************************************************************)
(* Properties of the fallback chains, checked under SpecChain.             *)
(***************************************************************************)
CallsOf(cmd) == {k \in 1..Len(calls) : calls[k].cmd = cmd}

Invoked(cmd) == CallsOf(cmd) # {}

Succeeded(cmd) == \E k \in CallsOf(cmd) : calls[k].ok

Failed(cmd) == \E k \in CallsOf(cmd) : ~calls[k].ok

\* Probe outputs that read as a duration of at least 0.1 s.
AtLeastTenth == {"0.100000", "5.000000"}

\* Probe outputs that read as a duration below 0.1 s.
NearZero == {"0.000000", "0.090000"}

PrimaryVerified ==
    /\ Succeeded("primary")
    /\ \E k \in CallsOf("probe") : calls[k].ok /\ calls[k].out \in AtLeastTenth

PrimaryFailed ==
    \/ Failed("primary")
    \/ \E k \in CallsOf("probe") : ~calls[k].ok \/ calls[k].out \notin AtLeastTenth

AlternativeFailed == Failed("alt_image") \/ Failed("alt_overlay")

DirectFailed == Failed("direct")

\* C12: create_video_with_overlay of poemtok_fixed returns the primary
\* command's output exactly when the primary command exits zero, the probe
\* exits zero and its output parses as a number of at least 0.1; in every
\* other case create_video_alternative is invoked.
C12_FallbackTrigger ==
    (script = "fixed" /\ chain_pc = "done") =>
        /\ (result = <<"primary">>) <=> PrimaryVerified
        /\ Invoked("alt_image") <=> ~PrimaryVerified

C12_Witness ==
    /\ script = "fixed"
    /\ chain_pc = "done"
    /\ Succeeded("primary")
    /\ \E k \in CallsOf("probe") : calls[k].ok /\ calls[k].out = "0.090000"
    /\ Invoked("alt_image")

\* C13: create_video_with_styled_text retries with create_video_direct both
\* when the primary command exits non-zero and when the probe returns a
\* near-zero duration.
C13_RetriesWithDirect ==
    (script = "styled_text" /\ chain_pc = "done") =>
        ((\/ Failed("primary")
          \/ \E k \in CallsOf("probe") : calls[k].ok /\ calls[k].out \in NearZero)
            => Invoked("direct"))

Rank(cmd) ==
    CASE cmd \in {"primary", "probe"} -> 1
      [] cmd \in {"alt_image", "alt_overlay"} -> 2
      [] OTHER -> 3

StrategyOf(cmd) ==
    CASE cmd \in {"primary", "probe"} -> "primary"
      [] cmd \in {"alt_image", "alt_overlay"} -> "alternative"
      [] OTHER -> "direct"

\* C14: the strategies of poemtok_fixed run in the order primary,
\* alternative, direct; a later one starts only after every earlier one has
\* failed; the first success ends the chain and is what is returned; the
\* result is None exactly when all three failed.
C14_ChainOrder ==
    (script = "fixed") =>
        /\ \A j, k \in 1..Len(calls) :
               j < k => /\ Rank(calls[j].cmd) <= Rank(calls[k].cmd)
                        /\ calls[j].cmd # calls[k].cmd
        /\ Invoked("alt_image") => PrimaryFailed
        /\ Invoked("direct") => PrimaryFailed /\ AlternativeFailed
        /\ (chain_pc # "done") =>
               /\ result = <<>>
               /\ ~PrimaryVerified
               /\ ~Succeeded("alt_overlay")
               /\ ~Succeeded("direct")
        /\ (chain_pc = "done" /\ result # <<>>) =>
               /\ StrategyOf(calls[Len(calls)].cmd) = result[1]
               /\ calls[Len(calls)].ok
        /\ (chain_pc = "done") =>
               ((result = <<>>) <=>
                    (PrimaryFailed /\ AlternativeFailed /\ DirectFailed))

C14_Witness ==
    /\ script = "fixed"
    /\ chain_pc = "done"
    /\ result = <<"direct">>
    /\ Succeeded("primary")
    /\ Succeeded("alt_image")
    /\ Failed("alt_overlay")

\* The commands that write output_path.
Writers == {"primary", "alt_overlay", "direct"}

SuccessfulWrites ==
    {k \in 1..Len(calls) : calls[k].cmd \in Writers /\ calls[k].ok}

\* C15 as stated: at most one invocation writes the output successfully
\* and it is never overwritten later.
C15_WrittenOnce ==
    (script = "fixed") => Cardinality(SuccessfulWrites) <= 1

\* C15 amended: a successful write of the output is overwritten later only
\* when it is the primary command's and its probe failed or rejected it;
\* so at most two invocations write the output successfully, and the
\* returned output is the last of them, written by the strategy that
\* returned, with no command run on the output after it.
C15_ReturnedWrittenLast ==
    (script = "fixed") =>
        /\ Cardinality(SuccessfulWrites) <= 2
        /\ \A k \in SuccessfulWrites :
               (\E j \in SuccessfulWrites : j > k) =>
                   /\ calls[k].cmd = "primary"
                   /\ calls[k + 1].cmd = "probe"
                   /\ ~calls[k + 1].ok \/ calls[k + 1].out \notin AtLeastTenth
        /\ (result # <<>>) =>
               \E k \in SuccessfulWrites :
                   /\ StrategyOf(calls[k].cmd) = result[1]
                   /\ \A j \in 1..Len(calls) :
                          j > k => calls[j].cmd \notin Writers

C15_Witness ==
    /\ script = "fixed"
    /\ chain_pc = "done"
    /\ result = <<"alternative">>
    /\ Cardinality(SuccessfulWrites) = 2

(***************************************************************************)
(* Temporary directories, checked under SpecTemp.                          *)
(***************************************************************************)
\* C16: after teardown with no removal error, no temporary directory made
\* by tempfile.mkdtemp remains, be it the converter's self.temp_dir or one
\* made by process_image / process_image_to_white_text.
C16_NoTempDirRemains ==
    (temp_pc = "torn_down" /\ ~removal_failed) => temp_dirs = {}

(***************************************************************************)
(* PoemTok.create_video, checked under SpecVideo.                          *)
(***************************************************************************)
\* What create_text_overlay has returned, in every state.
C17_Overlay ==
    /\ video_pc # "raised"
    /\ ~has_pytesseract => ocr = "not_called"
    /\ video_pc \in {"background", "done"} => overlay # <<>>
    /\ overlay # <<>> =>
           /\ overlay[1].mode = "RGBA"
           /\ overlay[1].size = resolution
           /\ (overlay[1].method = "styled") <=>
                  /\ has_pytesseract
                  /\ ocr = "returned"
                  /\ \E i \in 1..Len(text) : text[i] \notin Whitespace
                  /\ render = "ok"

\* C17: HAS_PYTESSERACT never changes after import, and create_text_overlay
\* returns an RGBA overlay of the frame resolution in every case: the
\* image-based one when OCR is absent, raises, returns empty or whitespace
\* text, or when the styled rendering raises, the styled one when OCR
\* returns text; no failure of OCR propagates.
C17_OcrDegradesGracefully ==
    /\ []C17_Overlay
    /\ [][has_pytesseract' = has_pytesseract]_vars

C17_Witness ==
    /\ video_pc = "done"
    /\ has_pytesseract
    /\ render = "raised"
    /\ overlay # <<>>
    /\ overlay[1].method = "image"

\* C18: a background shorter than the video is looped n = ceil(D / B)
\* times, so that n * B >= D, and cut to [0, D]; otherwise the segment
\* starts at s with 0 <= s <= B - D; in both cases the segment lies inside
\* the source and its length is exactly D.
C18_BackgroundMatching ==
    segment # <<>> =>
        LET g == segment[1]
            D == duration
            B == background_duration
        IN /\ B < D =>
                  /\ g.n_loops * B >= D
                  /\ (g.n_loops - 1) * B < D
                  /\ g.source = g.n_loops * B
                  /\ g.start = 0
                  /\ g.end = D
           /\ B >= D =>
                  /\ g.source = B
                  /\ 0 <= g.start
                  /\ g.start <= B - D
           /\ 0 <= g.start
           /\ g.end <= g.source
           /\ g.end - g.start = D

C18_Witness ==
    /\ segment # <<>>
    /\ duration = 3
    /\ background_duration = 2
    /\ segment[1].n_loops = 2

(***************************************************************************)
(* The page loop and its scratch file, checked under SpecRun.              *)
(***************************************************************************)
Starts == {j \in 1..Len(tool_log) : tool_log[j].ev = "start"}

\* C19: at most one tool invocation is in flight; the invocation for a page
\* has returned before the next page's starts; pages are started in
\* ascending order from the first; the loop ends after the last page.
C19_OnePageAtATime ==
    /\ Cardinality(in_flight) <= 1
    /\ \A j \in 1..Len(tool_log) :
           /\ tool_log[j].page \in 1..Len(run_texts)
           /\ IF tool_log[j].ev = "start"
              THEN \/ j = 1 /\ tool_log[j].page = 1
                   \/ /\ j > 1
                      /\ tool_log[j - 1].ev = "return"
                      /\ tool_log[j - 1].page = tool_log[j].page - 1
              ELSE /\ j > 1
                   /\ tool_log[j - 1].ev = "start"
                   /\ tool_log[j - 1].page = tool_log[j].page
    /\ run_pc = "done" =>
           /\ in_flight = {}
           /\ {tool_log[j].page : j \in Starts} = 1..Len(run_texts)
           /\ Len(tool_log) = 2 * Len(run_texts)

C19_Witness ==
    /\ run_pc = "done"
    /\ Len(run_texts) = 2
    /\ Len(tool_log) = 4
    /\ run_outputs = <<2>>

Lines(seq) == {seq[i] : i \in 1..Len(seq)}

\* C20: when the tool is invoked for page k the scratch file holds page k's
\* content and nothing of an earlier page, and stays so while the tool runs.
C20_ScratchHoldsThisPage ==
    /\ \A j \in Starts :
           LET k == tool_log[j].page
               file == tool_log[j].read
           IN /\ file # <<>>
              /\ \A l \in Lines(file[1].lines) : l.page = k
              /\ {l \in Lines(file[1].lines) : l.n # 0}
                     = {l \in Lines(run_texts[k]) : l.n # 0}
              /\ Len(file[1].lines) <= Len(run_texts[k])
    /\ in_flight # {} =>
           scratch = tool_log[Len(tool_log)].read

C20_Witness ==
    \E j \in Starts :
        /\ tool_log[j].page = 2
        /\ run_texts[1] # <<>>
        /\ run_texts[2] # <<>>
        /\ run_script # "poemtok"
        /\ tool_log[j].read[1].lines # <<>>

(***************************************************************************)
(* poemtok_final, checked under SpecFinal.                                 *)
(***************************************************************************)
\* C21: the background alpha of every background pixel of the processed
\* image is int(255 * bg_opacity) for the --bg-opacity given on the command
\* line.
C21_CliOpacityDeterminesAlpha ==
    (final_pc # "process_image") =>
        \A p \in Pixels(image_size) :
            processed.px[p] # White =>
                processed.px[p][4] = (255 * args_bg_opacity) \div 100

FfmpegExitedZero ==
    \E k \in 1..Len(final_calls) :
        final_calls[k].cmd = "ffmpeg" /\ final_calls[k].ok

ProbeExitedZero ==
    \E k \in 1..Len(final_calls) :
        final_calls[k].cmd = "probe" /\ final_calls[k].ok

\* C22 as stated: create_video returns the output path whenever the ffmpeg
\* command exits zero and None only when it exits non-zero, whatever the
\* probe does.
C22_ExitCodeOnly ==
    (final_pc = "done") => ((final_result # <<>>) <=> FfmpegExitedZero)

\* C22 amended: create_video returns the output path exactly when the
\* ffmpeg command and the probe both exit zero; what the probe prints
\* (a duration, a near-zero duration, nothing that parses) does not change
\* the result.
C22_BothExitCodes ==
    (final_pc = "done") =>
        ((final_result = <<"output_path">>)
             <=> (FfmpegExitedZero /\ ProbeExitedZero))

C22_Witness ==
    /\ final_pc = "done"
    /\ final_result = <<"output_path">>
    /\ \E k \in 1..Len(final_calls) :
           /\ final_calls[k].cmd = "probe"
           /\ final_calls[k].out = "N/A"

(***************************************************************************)
(* Termination and clean-up of the poemtok_fixed chain, checked under      *)
(* SpecChain.                                                              *)
(***************************************************************************)
Compositing == {"primary", "alt_image", "alt_overlay", "direct"}

\* C23: the poemtok_fixed chain returns after at most 4 compositing
\* invocations (1 primary, at most 2 in the alternative, at most 1 direct)
\* and at most 1 probe; no command is run twice, a command of an earlier
\* strategy never follows one of a later strategy, and until the chain has
\* returned a next step exists.
C23_ChainTerminates ==
    (script = "fixed") =>
        /\ Cardinality({k \in 1..Len(calls) : calls[k].cmd \in Compositing}) <= 4
        /\ Cardinality(CallsOf("primary")) <= 1
        /\ Cardinality(CallsOf("alt_image") \cup CallsOf("alt_overlay")) <= 2
        /\ Cardinality(CallsOf("direct")) <= 1
        /\ Cardinality(CallsOf("probe")) <= 1
        /\ \A j, k \in 1..Len(calls) :
               j < k => Rank(calls[j].cmd) <= Rank(calls[k].cmd)
        /\ (chain_pc = "done") \/ ENABLED ChainNext

C23_Witness ==
    /\ script = "fixed"
    /\ chain_pc = "done"
    /\ Len(calls) = 5
    /\ Cardinality(CallsOf("probe")) = 1

\* C24: once create_video_alternative has returned, by success or by
\* handing over to create_video_direct, the output_path + ".temp_image.mp4"
\* it created does not exist.
C24_TempImageRemoved ==
    (/\ script = "fixed"
     /\ Succeeded("alt_image")
     /\ chain_pc \in {"direct", "done"}) => ~temp_image_video

(***************************************************************************)
(* The text formatters, checked under SpecFmt.                             *)
(***************************************************************************)
\* The words of the lines, one after the other.
RECURSIVE Flatten(_)
Flatten(ls) == IF ls = <<>> THEN <<>> ELSE Head(ls) \o Flatten(Tail(ls))

\* C25: _format_text emits no empty line; every line is at most
\* max_line_length long unless it is a single word longer than that; the
\* words come out in their order, none lost, none twice; and a line ends
\* only where the next word with its space would not have fitted.
C25_WordWrap ==
    (fmt_func = "_format_text" /\ fmt_pc = "done") =>
        /\ \A j \in 1..Len(lines) :
               /\ lines[j] # <<>>
               /\ \/ LineLen(lines[j]) <= max_line_length
                  \/ Len(lines[j]) = 1 /\ lines[j][1].len > max_line_length
        /\ Flatten(lines) = words
        /\ \A j \in 1..(Len(lines) - 1) :
               LineLen(lines[j]) + 1 + lines[j + 1][1].len > max_line_length

C25_Witness ==
    /\ fmt_func = "_format_text"
    /\ fmt_pc = "done"
    /\ Len(lines) = 2
    /\ Len(lines[1]) = 2
    /\ lines[2][1].len > max_line_length

\* C26: every line of the subtitle body create_subtitle_file writes is
\* non-empty and at most 40 characters long, and the words are in their
\* original order.
C26_SubtitleLines ==
    (fmt_func = "create_subtitle_file" /\ fmt_pc = "done") =>
        /\ \A j \in 1..Len(lines) :
               /\ lines[j] # <<>>
               /\ LineLen(lines[j]) <= 40
        /\ Flatten(lines) = words

\* What a timestamp denotes, in seconds (fractions are zero here).
Seconds(ts) == 3600 * ts.h + 60 * ts.m + ts.s

\* C27: the cue of create_subtitle_file and every Dialogue event of
\* create_advanced_subtitle start at 0 and end at the duration in seconds.
C27_CueEndsAtDuration ==
    (fmt_pc = "done" /\ cue # <<>>) =>
        /\ Seconds(cue[1].start) = 0
        /\ Seconds(cue[1].end) = fmt_duration

(***************************************************************************)
(* The centre crop, checked under SpecCrop.                                *)
(***************************************************************************)
Abs(n) == IF n < 0 THEN 0 - n ELSE n

\* The window lies inside the source.
CropInside ==
    /\ 0 <= crop[1].x1
    /\ crop[1].x1 <= crop[1].x2
    /\ crop[1].x2 <= video_size[1]
    /\ 0 <= crop[1].y1
    /\ crop[1].y1 <= crop[1].y2
    /\ crop[1].y2 <= video_size[2]

\* The margins on both sides differ by at most one pixel.
CropCentred ==
    /\ Abs(crop[1].x1 - (video_size[1] - crop[1].x2)) <= 1
    /\ Abs(crop[1].y1 - (video_size[2] - crop[1].y2)) <= 1

WidthCropped == crop[1].x2 - crop[1].x1 < video_size[1]

HeightCropped == crop[1].y2 - crop[1].y1 < video_size[2]

\* C28 as stated: the window lies inside the source, exactly one dimension
\* is cropped, and the window is centred to within one pixel.
C28_ExactlyOneCropped ==
    crop # <<>> =>
        /\ CropInside
        /\ WidthCropped # HeightCropped
        /\ CropCentred

\* C28 amended: the window lies inside the source and is centred to within
\* one pixel; a source wider than the target aspect loses width only, a
\* taller one loses height only, and a source of exactly the target aspect
\* is not cropped at all.
C28_CentreCrop ==
    crop # <<>> =>
        LET lhs == video_size[1] * crop_resolution[2]
            rhs == crop_resolution[1] * video_size[2]
        IN /\ CropInside
           /\ CropCentred
           /\ lhs > rhs => WidthCropped /\ ~HeightCropped
           /\ lhs < rhs => HeightCropped /\ ~WidthCropped
           /\ lhs = rhs => ~WidthCropped /\ ~HeightCropped

C28_Witness ==
    /\ crop # <<>>
    /\ video_size = <<6, 2>>
    /\ crop_resolution = <<3, 4>>
    /\ crop[1].x1 = 2
    /\ crop[1].x2 = 3

(***************************************************************************)
(* save_pdf_pages_as_images, checked under SpecShot.                       *)
(***************************************************************************)
PrimaryRaised ==
    \E j \in 1..Len(shot_log) :
        shot_log[j].by \in {"convert", "primary"} /\ ~shot_log[j].ok

ByFallback(e) == e.by = "fallback"

SavedByFallback(e) == e.by = "fallback" /\ e.ok

\* C29: when the primary converter raises, the paths collected so far are
\* dropped and the per-page renderer goes over start_page..end_page in
\* ascending order; a page that fails there is skipped and the later pages
\* are still attempted; no conversion failure leaves the function; the
\* returned list holds a saved page's path at most once.
C29_Fallback ==
    /\ ~shot_raised
    /\ shot_pc # "raised"
    /\ \A j, k \in 1..Len(image_paths) :
           j < k => image_paths[j] < image_paths[k]
    /\ PrimaryRaised =>
           LET tried == SelectSeq(shot_log, ByFallback)
               saved == SelectSeq(shot_log, SavedByFallback)
           IN /\ shot_pc \in {"fallback", "done"}
              /\ \A j \in 1..Len(tried) : tried[j].page = shot_start + j - 1
              /\ image_paths = [j \in 1..Len(saved) |-> saved[j].page]
              /\ shot_pc = "done" =>
                     Len(tried) = Max(0, shot_end[1] - shot_start + 1)

C29_Witness ==
    /\ shot_pc = "done"
    /\ \E j \in 1..Len(shot_log) :
           shot_log[j].by = "primary" /\ shot_log[j].ok
    /\ \E j, k \in 1..Len(shot_log) :
           /\ j < k
           /\ shot_log[j].by = "fallback"
           /\ ~shot_log[j].ok
           /\ shot_log[k].by = "fallback"
           /\ shot_log[k].ok
====
